---- MODULE Spec2Model ----
(***************************************************************************)
(* North Star House check-in dashboard: the record store (MemStorage and   *)
(* DatabaseStorage), the registry aggregation (getAllPeople, deletePerson, *)
(* unique names) and the statistics handler (GET /api/stats), modelled as  *)
(* a state machine whose actions are the HTTP handlers of routes.ts.       *)
(*                                                                         *)
(* JavaScript values are encoded as TLA+ strings: an ordinary string is    *)
(* itself, and null, true and false are the reserved strings below.  A     *)
(* request body is a record whose domain is the set of keys it carries.    *)
(* JavaScript numbers that may be NaN are records [nan, v].                *)
(***************************************************************************)
EXTENDS Integers, Sequences, FiniteSets, TLC

\* ------------------------------------------------------------------ bounds
\* Total number of creation requests accepted over a behaviour.
MaxCreates == 3

\* ------------------------------------------------------------ JS encodings
NULL == "#null"
JsTrue == "#true"
JsFalse == "#false"
JsNumber42 == "#42"

IsString(v) == v \notin {NULL, JsTrue, JsFalse, JsNumber42}
IsBoolean(v) == v \in {JsTrue, JsFalse}

\* JavaScript truthiness of an encoded value (used by `x || null`, `a && b`).
Truthy(v) == v \notin {NULL, JsFalse, ""}

Has(body, f) == f \in DOMAIN body

\* body.f, or undefined (falsy, encoded as NULL) when the key is absent.
Get(body, f) == IF Has(body, f) THEN body[f] ELSE NULL

\* `body.f || null`
OrNull(body, f) == IF Truthy(Get(body, f)) THEN body[f] ELSE NULL

Num(n) == [nan |-> FALSE, v |-> n]
NaN == [nan |-> TRUE, v |-> 0]

Kinds == {"volunteer", "guest", "staff"}

\* --------------------------------------------------------------- schema.ts
VolunteerColumns == {"id", "name", "date", "timeIn", "timeOut", "area", "activities"}
GuestColumns == {"id", "name", "email", "phone", "reason", "joinNewsletter",
                 "brideName", "groomName", "tourGuide", "date"}
StaffColumns == {"id", "name", "date", "timeIn", "timeOut", "notes"}

\* notNull() text columns other than the serial id
VolunteerRequired == {"name", "date", "timeIn", "area", "activities"}
GuestRequired == {"name", "email", "reason", "date"}
StaffRequired == {"name", "date"}

BooleanColumns == {"joinNewsletter"}

\* The column default applied by the database when an insert omits the column.
ColumnDefault(f) == IF f = "joinNewsletter" THEN JsFalse ELSE NULL

SchemaAcceptsPresence(columns, required, body) ==
    \A f \in required : Has(body, f)

\* createInsertSchema(table).omit({id}).parse(body): required columns must be
\* strings, nullable columns may be absent, null or of the column's type.
SchemaAccepts(columns, required, body) ==
    /\ \A f \in required : Has(body, f) /\ IsString(body[f])
    /\ \A f \in (DOMAIN body \cap columns) \ (required \cup {"id"}) :
          \/ body[f] = NULL
          \/ IF f \in BooleanColumns THEN IsBoolean(body[f]) ELSE IsString(body[f])

\* The parsed value: zod strips the keys the schema does not know (id included).
SchemaParse(columns, body) ==
    [f \in DOMAIN body \cap (columns \ {"id"}) |-> body[f]]

\* The fields of `required` the body violates (ZodError.errors paths).
SchemaErrors(columns, required, body) ==
    {f \in required : ~(Has(body, f) /\ IsString(body[f]))}
    \cup {f \in (DOMAIN body \cap columns) \ (required \cup {"id"}) :
            ~(\/ body[f] = NULL
              \/ IF f \in BooleanColumns THEN IsBoolean(body[f]) ELSE IsString(body[f]))}

\* ------------------------------------------------------------------- state
VARIABLES
    backend,              \* "mem" (MemStorage) or "db" (DatabaseStorage)
    volunteers,           \* Volunteer rows, in retrieval order
    guests,               \* Guest rows, in retrieval order
    staff,                \* Staff rows, in retrieval order
    currentVolunteerId,   \* next Volunteer id (counter / serial sequence)
    currentGuestId,       \* next Guest id
    currentStaffId,       \* next Staff id
    last,                 \* the last request and the response sent for it
    issued,               \* history: the ids each kind's creates returned, in order
    calls,                \* history: the storage calls the last request's handler made
    pending,              \* the composite read whose awaited selects are under way
    snapshots,            \* history: the store contents since the pending read began
    inflight,             \* each caller's storage call: not made, under way or settled
    answers,              \* history: how many responses the last request's handler sent
    activeModal,          \* dashboard state: the modal that is open, or NULL
    timers,               \* the auto-close timers scheduled and not yet fired, per modal
    cache                 \* the query client's cache: per query key, data and staleness

vars == <<backend, volunteers, guests, staff,
          currentVolunteerId, currentGuestId, currentStaffId, last, issued,
          calls, pending, snapshots, inflight, answers, activeModal, timers, cache>>

\* The state of the browser client.
client == <<activeModal, timers, cache>>

stores == <<volunteers, guests, staff>>
counters == <<currentVolunteerId, currentGuestId, currentStaffId>>

StoreOf(kind) ==
    CASE kind = "volunteer" -> volunteers
      [] kind = "guest" -> guests
      [] kind = "staff" -> staff

\* -------------------------------------------------------- sequence helpers
Range(s) == {s[i] : i \in 1..Len(s)}

HasId(rows, id) == \E i \in 1..Len(rows) : rows[i].id = id

RECURSIVE WithoutId(_, _)
WithoutId(rows, id) ==
    IF rows = <<>> THEN <<>>
    ELSE IF Head(rows).id = id THEN WithoutId(Tail(rows), id)
    ELSE <<Head(rows)>> \o WithoutId(Tail(rows), id)

InsertAt(rows, i, row) ==
    SubSeq(rows, 1, i - 1) \o <<row>> \o SubSeq(rows, i, Len(rows))

\* ------------------------------------------------------------- MemStorage
\* Map.set(id, row): a new key is appended to the iteration order, an
\* existing key keeps its place.
MapSet(rows, id, row) ==
    IF HasId(rows, id)
    THEN [i \in 1..Len(rows) |-> IF rows[i].id = id THEN row ELSE rows[i]]
    ELSE Append(rows, row)

\* A delete that marks the key and leaves the row in the map.
MapDeleteKeepsRow(rows, id) == [rows |-> rows, result |-> HasId(rows, id)]

\* Map.delete(id): the map without the key, and whether the key was there.
MapDelete(rows, id) == [rows |-> WithoutId(rows, id), result |-> HasId(rows, id)]

\* { ...insert, id, f: insert.f || null for f in orNull }
MemRecord(columns, orNull, insert, id) ==
    [f \in columns |->
        IF f = "id" THEN id
        ELSE IF f \in orNull THEN OrNull(insert, f)
        ELSE insert[f]]

MemCreateVolunteer(insertVolunteer, id) ==
    MemRecord(VolunteerColumns, {"timeOut"}, insertVolunteer, id)

MemCreateGuest(insertGuest, id) ==
    MemRecord(GuestColumns,
              {"phone", "joinNewsletter", "brideName", "groomName", "tourGuide"},
              insertGuest, id)

MemCreateStaff(insertStaff, id) ==
    MemRecord(StaffColumns, {"timeIn", "timeOut", "notes"}, insertStaff, id)

\* --------------------------------------------------------- DatabaseStorage
\* insert(table).values(insert).returning(): an omitted column takes the
\* column default, a supplied one (null included) is stored as supplied.
DbRecord(columns, insert, id) ==
    [f \in columns |->
        IF f = "id" THEN id
        ELSE IF Has(insert, f) THEN insert[f]
        ELSE ColumnDefault(f)]

DbDeleteAlwaysTrue(rows, id) == [rows |-> WithoutId(rows, id), result |-> TRUE]

\* delete(table).where(eq(table.id, id)): the table without the matching
\* rows, and `result && result.rowCount > 0`.
DbDelete(rows, id) ==
    LET rowCount == Cardinality({i \in 1..Len(rows) : rows[i].id = id})
    IN  [rows |-> WithoutId(rows, id), result |-> rowCount > 0]

\* The places a new row may take in the retrieval order of a table: a select
\* without ORDER BY returns the rows in the order the heap holds them, and a
\* new tuple may reuse the space of a deleted one.
DbPlaces(rows) == 1..(Len(rows) + 1)

\* ------------------------------------------------------------------- reads
\* getVolunteers / getGuests / getStaff: Array.from(map.values()), or
\* db.select().from(table): the rows in retrieval order.
GetVolunteers == volunteers
GetGuests == guests
GetStaff == staff

\* The text in lower case.
LowerCase(text) ==
    CASE text = "Garden" -> "garden"
      [] text = "Tours" -> "tours"
      [] OTHER -> text

GetVolunteersByCategoryAnyCase(category) ==
    SelectSeq(volunteers, LAMBDA v : LowerCase(v.area) = LowerCase(category))

\* filter(volunteer => volunteer.area === category) / where(eq(area, category))
GetVolunteersByCategory(category) ==
    SelectSeq(volunteers, LAMBDA v : v.area = category)

TaggedVolunteer(row, type) ==
    [f \in DOMAIN row \cup {"type"} |-> IF f = "type" THEN "volunteer" ELSE row[f]]

\* { ...row, type }
Tagged(row, type) ==
    [f \in DOMAIN row \cup {"type"} |-> IF f = "type" THEN type ELSE row[f]]

\* for (const row of rows) allPeople.push({ ...row, type })
RECURSIVE PushAll(_, _, _)
PushAll(allPeople, rows, type) ==
    IF rows = <<>> THEN allPeople
    ELSE PushAll(Append(allPeople, Tagged(Head(rows), type)), Tail(rows), type)

GetAllPeopleWithoutStaff ==
    PushAll(PushAll(<<>>, volunteers, "volunteer"), guests, "guest")

GetAllPeopleStaffFirst ==
    PushAll(PushAll(PushAll(<<>>, staff, "staff"), volunteers, "volunteer"),
            guests, "guest")

\* getAllPeople() on the results of its three reads
AllPeopleOf(vs, gs, ss) ==
    PushAll(PushAll(PushAll(<<>>, vs, "volunteer"), gs, "guest"), ss, "staff")

GetAllPeople == AllPeopleOf(volunteers, guests, staff)

\* The UTF-16 code units of the names the model uses.
CodeUnits(name) ==
    CASE name = "Ann" -> <<65, 110, 110>>
      [] name = "Bo"  -> <<66, 111>>
      [] name = "Bob" -> <<66, 111, 98>>
      [] name = "Eve" -> <<69, 118, 101>>
      [] name = "amy" -> <<97, 109, 121>>

\* a < b in code-unit order: the default comparator of Array.prototype.sort,
\* and ORDER BY under the C.UTF-8 collation of the database.
RECURSIVE UnitsLess(_, _)
UnitsLess(a, b) ==
    IF b = <<>> THEN FALSE
    ELSE IF a = <<>> THEN TRUE
    ELSE IF Head(a) # Head(b) THEN Head(a) < Head(b)
    ELSE UnitsLess(Tail(a), Tail(b))

StringLess(a, b) == UnitsLess(CodeUnits(a), CodeUnits(b))

\* Array.from(new Set(names)): each value once, in order of first occurrence.
RECURSIVE Distinct(_, _)
Distinct(names, seen) ==
    IF names = <<>> THEN <<>>
    ELSE IF Head(names) \in seen THEN Distinct(Tail(names), seen)
    ELSE <<Head(names)>> \o Distinct(Tail(names), seen \cup {Head(names)})

\* names.sort(): insertion of each element before the first greater one.
RECURSIVE SortInsert(_, _)
SortInsert(sorted, name) ==
    IF sorted = <<>> THEN <<name>>
    ELSE IF StringLess(name, Head(sorted)) THEN <<name>> \o sorted
    ELSE <<Head(sorted)>> \o SortInsert(Tail(sorted), name)

RECURSIVE Sort(_)
Sort(names) ==
    IF names = <<>> THEN <<>>
    ELSE SortInsert(Sort(Tail(names)), Head(names))

NamesOf(rows) == [i \in 1..Len(rows) |-> rows[i].name]

UniqueNamesUnsorted(rows) == Distinct(NamesOf(rows), {})

\* MemStorage: Array.from(new Set(rows.map(r => r.name))).sort()
\* DatabaseStorage: selectDistinct({name}).from(table).orderBy(name)
UniqueNames(rows) == Sort(Distinct(NamesOf(rows), {}))

GetUniqueVolunteerNames == UniqueNames(volunteers)
GetUniqueStaffNames == UniqueNames(staff)

\* -------------------------------------------------------------- statistics
MsPerSecond == 1000
SecondsPerMinute == 60
MinutesPerHour == 60
MsPerHour == MsPerSecond * SecondsPerMinute * MinutesPerHour

\* The tokens the date parser reads from a time string: the numbers between
\* the colons and the AM/PM keyword ("" when there is none); `word` tells
\* that the text holds a word that is no keyword of the date grammar.
TimeTokens(text) ==
    CASE text = "9:00:00 AM"  -> [h |-> 9,  m |-> 0,  s |-> 0, mer |-> "AM", word |-> FALSE]
      [] text = "9:15:00 AM"  -> [h |-> 9,  m |-> 15, s |-> 0, mer |-> "AM", word |-> FALSE]
      [] text = "9:20:00 AM"  -> [h |-> 9,  m |-> 20, s |-> 0, mer |-> "AM", word |-> FALSE]
      [] text = "9:30:00 AM"  -> [h |-> 9,  m |-> 30, s |-> 0, mer |-> "AM", word |-> FALSE]
      [] text = "12:30:00 PM" -> [h |-> 12, m |-> 30, s |-> 0, mer |-> "PM", word |-> FALSE]
      [] text = "5:00:00 PM"  -> [h |-> 5,  m |-> 0,  s |-> 0, mer |-> "PM", word |-> FALSE]
      [] text = "17:00:00"    -> [h |-> 17, m |-> 0,  s |-> 0, mer |-> "",   word |-> FALSE]
      [] text = "13:00:00 PM" -> [h |-> 13, m |-> 0,  s |-> 0, mer |-> "PM", word |-> FALSE]
      [] text = "noon"        -> [h |-> 0,  m |-> 0,  s |-> 0, mer |-> "",   word |-> TRUE]

\* new Date(`2024-01-01 ${text}`).getTime(), in milliseconds after local
\* midnight of the reference date; NaN for an Invalid Date.  A 12-hour time
\* needs an hour of 0..12, which is taken modulo 12 before PM adds 12.
DateGetTime(text) ==
    LET t == TimeTokens(text)
        hour == IF t.mer = "" THEN t.h
                ELSE (t.h % 12) + (IF t.mer = "PM" THEN 12 ELSE 0)
    IN  IF t.word THEN NaN
        ELSE IF t.mer # "" /\ t.h > 12 THEN NaN
        ELSE IF hour > 23 \/ t.m > 59 \/ t.s > 59 THEN NaN
        ELSE Num(((hour * MinutesPerHour + t.m) * SecondsPerMinute + t.s) * MsPerSecond)

\* JavaScript arithmetic on numbers that may be NaN.  Hours are carried as
\* exact multiples of 1/MsPerHour (v is the numerator).
JsMinus(a, b) == IF a.nan \/ b.nan THEN NaN ELSE Num(a.v - b.v)
JsPlus(a, b) == IF a.nan \/ b.nan THEN NaN ELSE Num(a.v + b.v)

JsNoClamp(a) == a

\* Math.max(0, x): NaN when x is NaN
JsMax0(a) == IF a.nan THEN NaN ELSE IF a.v < 0 THEN Num(0) ELSE a

\* Math.round(x) = floor(x + 0.5), x given as v / MsPerHour; NaN stays NaN
JsRound(a) ==
    IF a.nan THEN NaN ELSE Num((2 * a.v + MsPerHour) \div (2 * MsPerHour))

\* A callback that rounds each row's hours before adding them.
HoursStepRounded(total, s) ==
    IF Truthy(s.timeIn) /\ Truthy(s.timeOut)
    THEN LET timeIn == DateGetTime(s.timeIn)
             timeOut == DateGetTime(s.timeOut)
             hours == JsMinus(timeOut, timeIn)
         IN  IF total.nan \/ hours.nan THEN NaN
             ELSE Num(total.v + JsRound(JsMax0(hours)).v * MsPerHour)
    ELSE total

\* The callback of staff.reduce: the next total for one Staff row.
HoursStep(total, s) ==
    IF Truthy(s.timeIn) /\ Truthy(s.timeOut)
    THEN LET timeIn == DateGetTime(s.timeIn)
             timeOut == DateGetTime(s.timeOut)
             hours == JsMinus(timeOut, timeIn)
         IN  JsPlus(total, JsMax0(hours))
    ELSE total

GetTimeThrowsIfInvalid(text) == DateGetTime(text).nan

\* Whether new Date(`2024-01-01 ${text}`).getTime() throws: the constructor
\* yields an Invalid Date for text it cannot parse and getTime() returns NaN
\* for it, neither throws.
GetTimeThrows(text) == FALSE

\* Whether the reduce over `rows` throws (into the handler's catch block).
HoursThrows(rows) ==
    \E i \in 1..Len(rows) :
        /\ Truthy(rows[i].timeIn) /\ Truthy(rows[i].timeOut)
        /\ GetTimeThrows(rows[i].timeIn) \/ GetTimeThrows(rows[i].timeOut)

\* staff.reduce(callback, 0)
RECURSIVE Reduce(_, _)
Reduce(rows, total) ==
    IF rows = <<>> THEN total
    ELSE Reduce(Tail(rows), HoursStep(total, Head(rows)))

TotalHours(rows) == Reduce(rows, Num(0))

StatsDistinctNames ==
    [volunteers |-> Cardinality(Range(NamesOf(GetVolunteers))),
     guests |-> Cardinality(Range(NamesOf(GetGuests))),
     hours |-> JsRound(TotalHours(GetStaff))]

\* The body of the GET /api/stats response (res.json writes a NaN as null),
\* computed from the results of the handler's three reads.
StatsOf(vs, gs, ss) ==
    [volunteers |-> Len(vs),
     guests |-> Len(gs),
     hours |-> JsRound(TotalHours(ss))]

Stats == StatsOf(GetVolunteers, GetGuests, GetStaff)

\* ---------------------------------------------------------------- requests
D1 == "7/22/2025"
D2 == "7/23/2025"

\* Bodies of POST /api/volunteer
BobGarden ==
    [name |-> "Bob", date |-> D1, timeIn |-> "9:00:00 AM", area |-> "Garden",
     activities |-> "weeding"]
AnnTours ==
    [name |-> "Ann", date |-> D1, timeIn |-> "9:15:00 AM", area |-> "Tours",
     activities |-> "docent", timeOut |-> "", id |-> JsNumber42]
AmyTours ==
    [name |-> "amy", date |-> D2, timeIn |-> "9:00:00 AM", area |-> "Tours",
     activities |-> "docent", timeOut |-> "5:00:00 PM"]
BoLowerTours ==
    [name |-> "Bo", date |-> D2, timeIn |-> "9:15:00 AM", area |-> "tours",
     activities |-> "docent", timeOut |-> NULL]
VolunteerNoArea ==
    [name |-> "amy", date |-> D2, timeIn |-> "9:00:00 AM"]

VolunteerBodies == {BobGarden, AnnTours, AmyTours, BoLowerTours, VolunteerNoArea}

\* Bodies of POST /api/guest
AnnHistoric ==
    [name |-> "Ann", email |-> "ann@example.org", reason |-> "historic",
     date |-> D1]
EveWedding ==
    [name |-> "Eve", email |-> "eve@example.org", phone |-> "555-0100",
     reason |-> "wedding", joinNewsletter |-> JsTrue, brideName |-> "Eve",
     groomName |-> "Bob", tourGuide |-> "Ann", date |-> D2]
AmyWedding ==
    [name |-> "amy", email |-> "amy@example.org", reason |-> "wedding",
     joinNewsletter |-> JsFalse, groomName |-> "Bob", date |-> D2]
GuestNumberEmail ==
    [name |-> "Bob", email |-> JsNumber42, reason |-> "other", date |-> D1]

GuestBodies == {AnnHistoric, EveWedding, AmyWedding, GuestNumberEmail}

\* Bodies of POST /api/employee-clock
BobClockIn ==
    [name |-> "Bob", date |-> D1, timeIn |-> "9:00:00 AM", notes |-> "opening"]
BoClockOut ==
    [name |-> "Bo", date |-> D1, timeOut |-> "5:00:00 PM"]
AnnDay ==
    [name |-> "Ann", date |-> D1, timeIn |-> "9:00:00 AM", timeOut |-> "5:00:00 PM"]
BobOvernight ==
    [name |-> "Bob", date |-> D1, timeIn |-> "5:00:00 PM", timeOut |-> "9:00:00 AM"]
AnnAfternoon ==
    [name |-> "Ann", date |-> D2, timeIn |-> "12:30:00 PM", timeOut |-> "17:00:00"]
BoNoon ==
    [name |-> "Bo", date |-> D2, timeIn |-> "9:00:00 AM", timeOut |-> "noon"]
BobThirteenPM ==
    [name |-> "Bob", date |-> D2, timeIn |-> "13:00:00 PM", timeOut |-> "5:00:00 PM"]
BobClockOut ==
    [name |-> "Bob", date |-> D1, timeOut |-> "5:00:00 PM"]
AnnTwentyMinutes ==
    [name |-> "Ann", date |-> D1, timeIn |-> "9:00:00 AM", timeOut |-> "9:20:00 AM"]
BobHalfHour ==
    [name |-> "Bob", date |-> D2, timeIn |-> "9:00:00 AM", timeOut |-> "9:30:00 AM"]
StaffNoName ==
    [date |-> D1, timeIn |-> "9:00:00 AM"]

StaffBodies ==
    {BobClockIn, BoClockOut, BobClockOut, AnnDay, BobOvernight, AnnAfternoon,
     BoNoon, BobThirteenPM, StaffNoName}

\* Values of ?category= (the empty text is what `?category=` sends).
Categories == {"Garden", "Tours", "tours", ""}

\* parseInt(id): the leading digits of the text, NaN when there are none.
ParseInt(text) ==
    CASE text = "1"   -> Num(1)
      [] text = "2"   -> Num(2)
      [] text = "3"   -> Num(3)
      [] text = "4"   -> Num(4)
      [] text = "2x"  -> Num(2)
      [] text = "abc" -> NaN

\* The (:type, :id) parameters of DELETE /api/people/:type/:id.
DeleteParams ==
    (Kinds \X {"1", "2", "3"})
    \cup {<<"guest", "2x">>, <<"staff", "abc">>, <<"users", "1">>}

\* --------------------------------------------------------------- responses
Response(op, params, status, body) ==
    [op |-> op, params |-> params, status |-> status, body |-> body]

Message(text) == [message |-> text]

StatsOp == "GET /api/stats"

\* The GET routes that read all three tables, one awaited select after the
\* other: GET /api/people through DatabaseStorage.getAllPeople, GET /api/stats
\* in the handler itself.
PeopleOp == "GET /api/people"
ReadOps == {PeopleOp, StatsOp}

ReadFailure(op) ==
    IF op = PeopleOp THEN Message("Failed to fetch people")
    ELSE Message("Failed to fetch statistics")

\* The response body computed from the three select results.
ReadResult(op, vs, gs, ss) ==
    IF op = PeopleOp THEN AllPeopleOf(vs, gs, ss) ELSE StatsOf(vs, gs, ss)

\* A catch block that sends nothing.
CatchSwallows(op, params, failure) == Response("none", <<>>, 0, Message(""))

CatchWithError(op, params, failure) ==
    Response(op, params, 500,
             [f \in DOMAIN failure \cup {"error"} |->
                 IF f \in DOMAIN failure THEN failure[f] ELSE "Error: storage"])

\* catch (error) { res.status(500).json(failure) }
Catch(op, params, failure) == Response(op, params, 500, failure)

\* One storage call of a handler and how it ended.
Returned(fn) == [fn |-> fn, threw |-> FALSE]
Threw(fn) == [fn |-> fn, threw |-> TRUE]

\* No composite read is under way.
NoRead == [op |-> "none", got |-> <<>>]

\* The store contents that have existed while the pending read is under way,
\* once the stores are <<vs, gs, ss>>.
SnapshotsWith(vs, gs, ss) ==
    IF pending = NoRead THEN snapshots ELSE snapshots \cup {<<vs, gs, ss>>}

Created == (currentVolunteerId - 1) + (currentGuestId - 1) + (currentStaffId - 1)

\* A storage call of DatabaseStorage may reject (the database is unreachable,
\* the statement fails); MemStorage never throws.
StorageMayThrow == backend = "db"

\* The callers whose storage calls the model follows while they overlap.
Callers == {"a", "b"}

\* A caller with no storage call under way.
Idle == [stage |-> "idle"]

\* The modals of the dashboard that close themselves after a submission.
TimedModals == {"volunteer", "guest"}

\* The query keys the modals read through useQuery.
VolunteerNamesKey == <<"/api/volunteer-names">>
StaffNamesKey == <<"/api/staff-names">>
PeopleKey == <<"/api/people">>
StatsKey == <<"/api/stats">>
QueryKeys == {VolunteerNamesKey, StaffNamesKey, PeopleKey, StatsKey}

\* A query that has not been fetched.
NoData == [state |-> "none"]

Init ==
    /\ backend \in {"mem", "db"}
    /\ volunteers = <<>>
    /\ guests = <<>>
    /\ staff = <<>>
    /\ currentVolunteerId = 1
    /\ currentGuestId = 1
    /\ currentStaffId = 1
    /\ last = Response("none", <<>>, 0, Message(""))
    /\ issued = [k \in Kinds |-> <<>>]
    /\ calls = <<>>
    /\ pending = NoRead
    /\ snapshots = {}
    /\ inflight = [c \in Callers |-> Idle]
    /\ answers = 0
    /\ activeModal = NULL
    /\ timers = [m \in TimedModals |-> 0]
    /\ cache = [k \in QueryKeys |-> NoData]

\* ---------------------------------------------------------- storage calls
\* The id a create assigns: `this.currentVolunteerId++` in MemStorage, the
\* next value of the serial sequence in the database.  Neither looks at the
\* rows the store holds.
\* The id after the highest id stored (1 for an empty store).
NextIdAfterHighest(current, rows) ==
    IF rows = <<>> THEN 1
    ELSE 1 + CHOOSE id \in {row.id : row \in Range(rows)} :
                \A row \in Range(rows) : row.id <= id

NextIdBySize(current, rows) == Len(rows) + 1

NextId(current, rows) == current

DbCreateVolunteer(insertVolunteer, id) == DbRecord(VolunteerColumns, insertVolunteer, id)
DbCreateGuest(insertGuest, id) == DbRecord(GuestColumns, insertGuest, id)
DbCreateStaff(insertStaff, id) == DbRecord(StaffColumns, insertStaff, id)

\* storage.createVolunteer / createGuest / createStaff: the record returned
CreateVolunteer(insert, id) ==
    IF backend = "mem" THEN MemCreateVolunteer(insert, id) ELSE DbCreateVolunteer(insert, id)
CreateGuest(insert, id) ==
    IF backend = "mem" THEN MemCreateGuest(insert, id) ELSE DbCreateGuest(insert, id)
CreateStaff(insert, id) ==
    IF backend = "mem" THEN MemCreateStaff(insert, id) ELSE DbCreateStaff(insert, id)

\* An insert that, when a row with the same name and date is there, fills the
\* new row's values into that row instead.
InsertedOrMerged(rows, row) ==
    IF \E i \in 1..Len(rows) : rows[i].name = row.name /\ rows[i].date = row.date
    THEN {[i \in 1..Len(rows) |->
             IF rows[i].name = row.name /\ rows[i].date = row.date
             THEN [f \in DOMAIN row |->
                     IF f # "id" /\ row[f] # NULL THEN row[f] ELSE rows[i][f]]
             ELSE rows[i]]}
    ELSE IF backend = "mem" THEN {MapSet(rows, row.id, row)}
    ELSE {InsertAt(rows, place, row) : place \in DbPlaces(rows)}

\* The stores a create of `row` may leave behind.
Inserted(rows, row) ==
    IF backend = "mem" THEN {MapSet(rows, row.id, row)}
    ELSE {InsertAt(rows, place, row) : place \in DbPlaces(rows)}

\* storage.deletePerson(type, id) on the store of that type
DeleteFrom(rows, id) ==
    IF backend = "mem" THEN MapDelete(rows, id) ELSE DbDelete(rows, id)

\* A create that throws in the database may already have drawn a value from
\* the serial sequence: the next id moves on even though no row exists.
Skipped(current) ==
    IF Created < MaxCreates THEN {current, current + 1} ELSE {current}

\* ---------------------------------------------------------------- handlers
\* POST /api/volunteer
PostVolunteerRoute(body) ==
    LET op == "POST /api/volunteer" IN
    \/ /\ ~SchemaAccepts(VolunteerColumns, VolunteerRequired, body)
       /\ last' = Response(op, body, 400,
                     [message |-> "Invalid volunteer data",
                      errors |-> SchemaErrors(VolunteerColumns, VolunteerRequired, body)])
       /\ calls' = <<>>
       /\ answers' = 1
       /\ UNCHANGED <<backend, inflight, stores, counters, issued, pending, snapshots>>
    \/ /\ SchemaAccepts(VolunteerColumns, VolunteerRequired, body)
       /\ Created < MaxCreates
       /\ LET volunteerData == SchemaParse(VolunteerColumns, body)
              id == NextId(currentVolunteerId, volunteers)
              volunteer == CreateVolunteer(volunteerData, id)
          IN  /\ volunteers' \in Inserted(volunteers, volunteer)
              /\ currentVolunteerId' = id + 1
              /\ last' = Response(op, body, 200, volunteer)
              /\ issued' = [issued EXCEPT !["volunteer"] = Append(@, id)]
              /\ snapshots' = SnapshotsWith(volunteers', guests, staff)
       /\ calls' = <<Returned("createVolunteer")>>
       /\ answers' = 1
       /\ UNCHANGED <<backend, inflight, guests, staff, currentGuestId, currentStaffId, pending>>
    \/ /\ SchemaAccepts(VolunteerColumns, VolunteerRequired, body)
       /\ StorageMayThrow
       /\ currentVolunteerId' \in Skipped(currentVolunteerId)
       /\ last' = Catch(op, body, Message("Failed to create volunteer check-in"))
       /\ calls' = <<Threw("createVolunteer")>>
       /\ answers' = 1
       /\ UNCHANGED <<backend, inflight, stores, currentGuestId, currentStaffId, issued, pending, snapshots>>

\* POST /api/guest
PostGuestRoute(body) ==
    LET op == "POST /api/guest" IN
    \/ /\ ~SchemaAccepts(GuestColumns, GuestRequired, body)
       /\ last' = Response(op, body, 400,
                     [message |-> "Invalid guest data",
                      errors |-> SchemaErrors(GuestColumns, GuestRequired, body)])
       /\ calls' = <<>>
       /\ answers' = 1
       /\ UNCHANGED <<backend, inflight, stores, counters, issued, pending, snapshots>>
    \/ /\ SchemaAccepts(GuestColumns, GuestRequired, body)
       /\ Created < MaxCreates
       /\ LET guestData == SchemaParse(GuestColumns, body)
              id == NextId(currentGuestId, guests)
              guest == CreateGuest(guestData, id)
          IN  /\ guests' \in Inserted(guests, guest)
              /\ currentGuestId' = id + 1
              /\ last' = Response(op, body, 200, guest)
              /\ issued' = [issued EXCEPT !["guest"] = Append(@, id)]
              /\ snapshots' = SnapshotsWith(volunteers, guests', staff)
       /\ calls' = <<Returned("createGuest")>>
       /\ answers' = 1
       /\ UNCHANGED <<backend, inflight, volunteers, staff, currentVolunteerId, currentStaffId, pending>>
    \/ /\ SchemaAccepts(GuestColumns, GuestRequired, body)
       /\ StorageMayThrow
       /\ currentGuestId' \in Skipped(currentGuestId)
       /\ last' = Catch(op, body, Message("Failed to register guest"))
       /\ calls' = <<Threw("createGuest")>>
       /\ answers' = 1
       /\ UNCHANGED <<backend, inflight, stores, currentVolunteerId, currentStaffId, issued, pending, snapshots>>

\* POST /api/employee-clock
PostEmployeeClockRoute(body) ==
    LET op == "POST /api/employee-clock" IN
    \/ /\ ~SchemaAccepts(StaffColumns, StaffRequired, body)
       /\ last' = Response(op, body, 400,
                     [message |-> "Invalid staff data",
                      errors |-> SchemaErrors(StaffColumns, StaffRequired, body)])
       /\ calls' = <<>>
       /\ answers' = 1
       /\ UNCHANGED <<backend, inflight, stores, counters, issued, pending, snapshots>>
    \/ /\ SchemaAccepts(StaffColumns, StaffRequired, body)
       /\ Created < MaxCreates
       /\ LET staffData == SchemaParse(StaffColumns, body)
              id == NextId(currentStaffId, staff)
              staffMember == CreateStaff(staffData, id)
          IN  /\ staff' \in Inserted(staff, staffMember)
              /\ currentStaffId' = id + 1
              /\ last' = Response(op, body, 200, staffMember)
              /\ issued' = [issued EXCEPT !["staff"] = Append(@, id)]
              /\ snapshots' = SnapshotsWith(volunteers, guests, staff')
       /\ calls' = <<Returned("createStaff")>>
       /\ answers' = 1
       /\ UNCHANGED <<backend, inflight, volunteers, guests, currentVolunteerId, currentGuestId, pending>>
    \/ /\ SchemaAccepts(StaffColumns, StaffRequired, body)
       /\ StorageMayThrow
       /\ currentStaffId' \in Skipped(currentStaffId)
       /\ last' = Catch(op, body, Message("Failed to clock in/out"))
       /\ calls' = <<Threw("createStaff")>>
       /\ answers' = 1
       /\ UNCHANGED <<backend, inflight, stores, currentVolunteerId, currentGuestId, issued, pending, snapshots>>

DeletePersonAnyKind(type, id) ==
    [volunteers |-> DeleteFrom(volunteers, id).rows,
     guests |-> DeleteFrom(guests, id).rows,
     staff |-> DeleteFrom(staff, id).rows,
     result |-> type \in Kinds /\ HasId(StoreOf(type), id)]

\* storage.deletePerson(type, id): the three stores afterwards and the
\* boolean returned.
DeletePerson(type, id) ==
    CASE type = "volunteer" ->
            LET d == DeleteFrom(volunteers, id)
            IN  [volunteers |-> d.rows, guests |-> guests, staff |-> staff,
                 result |-> d.result]
      [] type = "guest" ->
            LET d == DeleteFrom(guests, id)
            IN  [volunteers |-> volunteers, guests |-> d.rows, staff |-> staff,
                 result |-> d.result]
      [] type = "staff" ->
            LET d == DeleteFrom(staff, id)
            IN  [volunteers |-> volunteers, guests |-> guests, staff |-> d.rows,
                 result |-> d.result]
      [] OTHER ->
            [volunteers |-> volunteers, guests |-> guests, staff |-> staff,
             result |-> FALSE]

\* DELETE /api/people/:type/:id
DeletePeopleRoute(type, id) ==
    LET op == "DELETE /api/people/:type/:id"
        params == <<type, id>>
        personId == ParseInt(id)
    IN
    \/ /\ personId.nan
       /\ last' = Response(op, params, 400, Message("Invalid person ID"))
       /\ calls' = <<>>
       /\ answers' = 1
       /\ UNCHANGED <<backend, inflight, stores, counters, issued, pending, snapshots>>
    \/ /\ ~personId.nan
       /\ type \notin {"volunteer", "guest", "staff"}
       /\ last' = Response(op, params, 400, Message("Invalid person type"))
       /\ calls' = <<>>
       /\ answers' = 1
       /\ UNCHANGED <<backend, inflight, stores, counters, issued, pending, snapshots>>
    \/ /\ ~personId.nan
       /\ type \in {"volunteer", "guest", "staff"}
       /\ LET deleted == DeletePerson(type, personId.v)
          IN  /\ volunteers' = deleted.volunteers
              /\ guests' = deleted.guests
              /\ staff' = deleted.staff
              /\ last' = IF deleted.result
                         THEN Response(op, params, 200, Message("Person deleted successfully"))
                         ELSE Response(op, params, 404, Message("Person not found"))
              /\ snapshots' = SnapshotsWith(deleted.volunteers, deleted.guests, deleted.staff)
       /\ calls' = <<Returned("deletePerson")>>
       /\ answers' = 1
       /\ UNCHANGED <<backend, inflight, counters, issued, pending>>
    \/ /\ ~personId.nan
       /\ type \in {"volunteer", "guest", "staff"}
       /\ StorageMayThrow
       /\ last' = Catch(op, params, Message("Failed to delete person"))
       /\ calls' = <<Threw("deletePerson")>>
       /\ answers' = 1
       /\ UNCHANGED <<backend, inflight, stores, counters, issued, pending, snapshots>>


\* PostVolunteer as one request from a client the model does not follow:
\* the browser state stays as it is.
PostVolunteer(body) == PostVolunteerRoute(body) /\ UNCHANGED client

\* PostGuest as one request from a client the model does not follow:
\* the browser state stays as it is.
PostGuest(body) == PostGuestRoute(body) /\ UNCHANGED client

\* PostEmployeeClock as one request from a client the model does not follow:
\* the browser state stays as it is.
PostEmployeeClock(body) == PostEmployeeClockRoute(body) /\ UNCHANGED client

\* DeletePeople as one request from a client the model does not follow:
\* the browser state stays as it is.
DeletePeople(type, id) == DeletePeopleRoute(type, id) /\ UNCHANGED client

\* A GET handler: the storage read `fn` answered with 200, or the catch
\* block when it throws.
ReadRoute(op, params, fn, result, failure) ==
    /\ \/ /\ last' = Response(op, params, 200, result)
          /\ calls' = <<Returned(fn)>>
       \/ /\ StorageMayThrow
          /\ last' = Catch(op, params, failure)
          /\ calls' = <<Threw(fn)>>
    /\ answers' = 1
    /\ UNCHANGED <<backend, inflight, stores, counters, issued, pending, snapshots>>

\* A GET request from a client the model does not follow.
Read(op, params, fn, result, failure) ==
    ReadRoute(op, params, fn, result, failure) /\ UNCHANGED client

\* GET /api/volunteer (with or without ?category=)
GetVolunteerList ==
    Read("GET /api/volunteer", <<>>, "getVolunteers", GetVolunteers,
         Message("Failed to fetch volunteers"))

\* if (category && typeof category === "string") the filtered list, else all
GetVolunteerCategory(category) ==
    IF Truthy(category) /\ IsString(category)
    THEN Read("GET /api/volunteer", <<category>>, "getVolunteersByCategory",
              GetVolunteersByCategory(category),
              Message("Failed to fetch volunteers"))
    ELSE Read("GET /api/volunteer", <<category>>, "getVolunteers", GetVolunteers,
              Message("Failed to fetch volunteers"))

\* GET /api/guest
GetGuestList ==
    Read("GET /api/guest", <<>>, "getGuests", GetGuests,
         Message("Failed to fetch guests"))

\* GET /api/employee-clock
GetEmployeeClock ==
    Read("GET /api/employee-clock", <<>>, "getStaff", GetStaff,
         Message("Failed to fetch staff records"))

\* GET /api/people
GetPeopleRoute ==
    ReadRoute(PeopleOp, <<>>, "getAllPeople", GetAllPeople,
              Message("Failed to fetch people"))

GetPeople == GetPeopleRoute /\ UNCHANGED client

\* The storage reads of GET /api/stats, in the order the handler awaits them.
StatsReads == <<"getVolunteers", "getGuests", "getStaff">>

\* The calls of a handler that awaits `reads` one after the other when call
\* number n throws: the calls before it returned, the ones after it are not made.
ThrewAt(reads, n) ==
    [i \in 1..n |-> IF i < n THEN Returned(reads[i]) ELSE Threw(reads[i])]

\* GET /api/stats: three reads, then the computation inside the same try block.
GetStatsRoute ==
    LET op == StatsOp
        failure == ReadFailure(StatsOp)
    IN
    /\ \/ /\ calls' = [i \in 1..Len(StatsReads) |-> Returned(StatsReads[i])]
          /\ last' = IF HoursThrows(GetStaff)
                     THEN Catch(op, <<>>, failure)
                     ELSE Response(op, <<>>, 200, Stats)
       \/ /\ StorageMayThrow
          /\ \E n \in 1..Len(StatsReads) : calls' = ThrewAt(StatsReads, n)
          /\ last' = Catch(op, <<>>, failure)
    /\ answers' = 1
    /\ UNCHANGED <<backend, inflight, stores, counters, issued, pending, snapshots>>

GetStats == GetStatsRoute /\ UNCHANGED client

\* A three-table read starts on the database: each `await` of a select
\* hands control back to the event loop, so other requests' statements may
\* run before the select's result arrives.  (MemStorage resolves at once:
\* there the whole handler runs before any other request, see GetPeople and
\* GetStats.)
BeginRead(op) ==
    /\ backend = "db"
    /\ pending = NoRead
    /\ pending' = [op |-> op, got |-> <<>>]
    /\ snapshots' = {<<volunteers, guests, staff>>}
    /\ UNCHANGED <<backend, inflight, client, stores, counters, last, issued, calls, answers>>

\* The next select of the pending read returns the table as it is now, or
\* throws into the handler's catch block.
Select ==
    LET n == Len(pending.got) + 1 IN
    /\ pending # NoRead
    /\ n <= Len(stores)
    /\ \/ /\ pending' = [pending EXCEPT !.got = Append(@, stores[n])]
          /\ UNCHANGED <<last, calls, snapshots, answers>>
       \/ /\ StorageMayThrow
          /\ pending' = NoRead
          /\ snapshots' = {}
          /\ last' = Catch(pending.op, <<>>, ReadFailure(pending.op))
          /\ calls' = IF pending.op = PeopleOp THEN <<Threw("getAllPeople")>>
                      ELSE ThrewAt(StatsReads, n)
          /\ answers' = 1
    /\ UNCHANGED <<backend, inflight, client, stores, counters, issued>>

\* The pending read has its three results: the handler computes the body
\* from them and answers.
Respond ==
    LET got == pending.got IN
    /\ pending # NoRead
    /\ Len(got) = Len(stores)
    /\ pending' = NoRead
    /\ snapshots' = {}
    /\ last' = IF pending.op = StatsOp /\ HoursThrows(got[3])
               THEN Catch(pending.op, <<>>, ReadFailure(pending.op))
               ELSE Response(pending.op, <<>>, 200,
                             ReadResult(pending.op, got[1], got[2], got[3]))
    /\ calls' = IF pending.op = PeopleOp THEN <<Returned("getAllPeople")>>
                ELSE [i \in 1..Len(StatsReads) |-> Returned(StatsReads[i])]
    /\ answers' = 1
    /\ UNCHANGED <<backend, inflight, client, stores, counters, issued>>

\* GET /api/volunteer-names
GetVolunteerNamesRoute ==
    ReadRoute("GET /api/volunteer-names", <<>>, "getUniqueVolunteerNames",
              GetUniqueVolunteerNames,
              [error |-> "Failed to fetch volunteer names"])

GetVolunteerNames == GetVolunteerNamesRoute /\ UNCHANGED client

\* GET /api/staff-names
GetStaffNamesRoute ==
    ReadRoute("GET /api/staff-names", <<>>, "getUniqueStaffNames", GetUniqueStaffNames,
              [error |-> "Failed to fetch staff names"])

GetStaffNames == GetStaffNamesRoute /\ UNCHANGED client

\* ------------------------------------------------ overlapping storage calls
\* Two callers' storage calls under way at the same time.  A MemStorage
\* method has no await: its body runs when it is called and the promise it
\* returns is already resolved.  A DatabaseStorage method sends one statement
\* and awaits it: the database executes it, whole, at some later point.  In
\* both, the caller resumes after its await in a later turn of the event loop.
CreateCall(kind, insert) == [fn |-> "create", kind |-> kind, insert |-> insert]
DeleteCall(kind, id) == [fn |-> "deletePerson", kind |-> kind, id |-> id]

CurrentId(kind) ==
    CASE kind = "volunteer" -> currentVolunteerId
      [] kind = "guest" -> currentGuestId
      [] kind = "staff" -> currentStaffId

\* storage.createVolunteer / createGuest / createStaff, by kind
CreateRecord(kind, insert, id) ==
    CASE kind = "volunteer" -> CreateVolunteer(insert, id)
      [] kind = "guest" -> CreateGuest(insert, id)
      [] kind = "staff" -> CreateStaff(insert, id)

\* The id of the new row, were it the next id as it stood when the call was made.
DrawnIdAtCall(atCall, atInsert) == atCall

\* The id of the new row: the counter is read and advanced in the statement
\* that stores the row (`this.currentVolunteerId++` with no await before the
\* Map.set; the serial column's default, evaluated by the INSERT).
DrawnId(atCall, atInsert) == atInsert

\* The creates under way and not yet executed.
CreatesSent ==
    Cardinality({c \in Callers : inflight[c].stage = "sent" /\ inflight[c].call.fn = "create"})

\* The statement of `call` takes effect and the promise resolves.
Resolve(c, call, atCall) ==
    \/ /\ call.fn = "create"
       /\ LET kind == call.kind
              id == DrawnId(atCall, NextId(CurrentId(kind), StoreOf(kind)))
              row == CreateRecord(kind, call.insert, id)
          IN  /\ volunteers' \in IF kind = "volunteer" THEN Inserted(volunteers, row) ELSE {volunteers}
              /\ guests' \in IF kind = "guest" THEN Inserted(guests, row) ELSE {guests}
              /\ staff' \in IF kind = "staff" THEN Inserted(staff, row) ELSE {staff}
              /\ currentVolunteerId' = IF kind = "volunteer" THEN id + 1 ELSE currentVolunteerId
              /\ currentGuestId' = IF kind = "guest" THEN id + 1 ELSE currentGuestId
              /\ currentStaffId' = IF kind = "staff" THEN id + 1 ELSE currentStaffId
              /\ issued' = [issued EXCEPT ![kind] = Append(@, id)]
              /\ inflight' = [inflight EXCEPT ![c] =
                    [stage |-> "resolved", call |-> call, threw |-> FALSE, result |-> row]]
    \/ /\ call.fn = "deletePerson"
       /\ LET deleted == DeletePerson(call.kind, call.id)
          IN  /\ volunteers' = deleted.volunteers
              /\ guests' = deleted.guests
              /\ staff' = deleted.staff
              /\ inflight' = [inflight EXCEPT ![c] =
                    [stage |-> "resolved", call |-> call, threw |-> FALSE,
                     result |-> deleted.result]]
       /\ UNCHANGED <<counters, issued>>

\* A caller calls storage.createX(insert) or storage.deletePerson(kind, id).
Invoke(c, call) ==
    /\ inflight[c].stage \in {"idle", "settled"}
    /\ call.fn = "create" => Created + CreatesSent < MaxCreates
    /\ \/ /\ backend = "mem"
          /\ Resolve(c, call, IF call.fn = "create" THEN CurrentId(call.kind) ELSE 0)
          /\ snapshots' = SnapshotsWith(volunteers', guests', staff')
       \/ /\ backend = "db"
          /\ inflight' = [inflight EXCEPT ![c] =
                [stage |-> "sent", call |-> call,
                 atCall |-> IF call.fn = "create" THEN CurrentId(call.kind) ELSE 0]]
          /\ UNCHANGED <<stores, counters, issued, snapshots>>
    /\ UNCHANGED <<backend, last, calls, pending, answers, client>>

\* The database executes the statement a caller sent, or the statement fails.
Execute(c) ==
    /\ inflight[c].stage = "sent"
    /\ \/ /\ Resolve(c, inflight[c].call, inflight[c].atCall)
          /\ snapshots' = SnapshotsWith(volunteers', guests', staff')
       \/ /\ StorageMayThrow
          /\ inflight' = [inflight EXCEPT ![c] =
                [stage |-> "resolved", call |-> inflight[c].call, threw |-> TRUE,
                 result |-> NULL]]
          /\ UNCHANGED <<stores, counters, issued, snapshots>>
    /\ UNCHANGED <<backend, last, calls, pending, answers, client>>

\* The caller resumes after its await with the result (or the exception).
Resume(c) ==
    /\ inflight[c].stage = "resolved"
    /\ inflight' = [inflight EXCEPT ![c].stage = "settled"]
    /\ UNCHANGED <<backend, stores, counters, last, issued, calls, pending,
                   snapshots, answers, client>>

\* ----------------------------------------------------------- browser client
\* The dashboard page of one browser: which modal is open, the auto-close
\* timers its modals have scheduled, and the query cache shared by all modals.
Modals == {"volunteer", "guest", "employee", "manage"}

\* The modal whose useQuery reads the key (enabled: isOpen).
QueryOwner(key) ==
    CASE key = VolunteerNamesKey -> "volunteer"
      [] key = StaffNamesKey -> "employee"
      [] key = PeopleKey -> "manage"
      [] key = StatsKey -> "manage"

\* The request a query sends: GET of the key's path.
QueryRoute(key) ==
    CASE key = VolunteerNamesKey -> GetVolunteerNamesRoute
      [] key = StaffNamesKey -> GetStaffNamesRoute
      [] key = PeopleKey -> GetPeopleRoute
      [] key = StatsKey -> GetStatsRoute

\* A query filter matches the keys it is a prefix of.
PrefixOf(filter, key) ==
    Len(filter) <= Len(key) /\ SubSeq(key, 1, Len(filter)) = filter

\* queryClient.invalidateQueries({ queryKey: filter })
InvalidateQueries(queries, filter) ==
    [key \in DOMAIN queries |->
        IF PrefixOf(filter, key) /\ queries[key].state # "none"
        THEN [queries[key] EXCEPT !.state = "invalidated"]
        ELSE queries[key]]

\* openModal(modalId); the cards are covered while a dialog is open.
OpenModal(modalId) ==
    /\ activeModal = NULL
    /\ activeModal' = modalId
    /\ UNCHANGED <<backend, stores, counters, last, issued, calls, pending,
                   snapshots, inflight, answers, timers, cache>>

\* closeModal(), called by the open dialog's handleClose / onOpenChange.
CloseModal ==
    /\ activeModal # NULL
    /\ activeModal' = NULL
    /\ UNCHANGED <<backend, stores, counters, last, issued, calls, pending,
                   snapshots, inflight, answers, timers, cache>>

\* The callback of setTimeout(() => onClose(), 2000) runs: onClose is the
\* dashboard's closeModal.
AutoClose(modal) ==
    /\ timers[modal] > 0
    /\ timers' = [timers EXCEPT ![modal] = @ - 1]
    /\ activeModal' = NULL
    /\ UNCHANGED <<backend, stores, counters, last, issued, calls, pending,
                   snapshots, inflight, answers, cache>>

\* An enabled query fetches (at first, after an invalidation, or when the
\* client's stale time has passed) and stores the data of a 200 response.
Fetch(key) ==
    /\ activeModal = QueryOwner(key)
    /\ QueryRoute(key)
    /\ cache' = IF last'.status = 200
                THEN [cache EXCEPT ![key] = [state |-> "fresh", data |-> last'.body]]
                ELSE cache
    /\ UNCHANGED <<activeModal, timers>>

\* createVolunteerMutation.mutate(data) with its onSuccess
CreateVolunteerMutation(data) ==
    /\ activeModal = "volunteer"
    /\ PostVolunteerRoute(data)
    /\ IF last'.status = 200
       THEN /\ cache' = InvalidateQueries(cache, <<"/api/volunteer">>)
            /\ timers' = [timers EXCEPT !["volunteer"] = @ + 1]
       ELSE UNCHANGED <<cache, timers>>
    /\ UNCHANGED activeModal

\* createGuestMutation.mutate(data) with its onSuccess
CreateGuestMutation(data) ==
    /\ activeModal = "guest"
    /\ PostGuestRoute(data)
    /\ IF last'.status = 200
       THEN /\ cache' = InvalidateQueries(cache, <<"/api/guest">>)
            /\ timers' = [timers EXCEPT !["guest"] = @ + 1]
       ELSE UNCHANGED <<cache, timers>>
    /\ UNCHANGED activeModal

\* createStaffMutation.mutate(data) with its onSuccess
CreateStaffMutation(data) ==
    /\ PostEmployeeClockRoute(data)
    /\ cache' = IF last'.status = 200
                THEN InvalidateQueries(cache, <<"/api/employee-clock">>)
                ELSE cache
    /\ UNCHANGED <<activeModal, timers>>

\* new Date() when a clock button is pressed: toLocaleDateString() and
\* toLocaleTimeString().
MorningNow == [date |-> D1, time |-> "9:00:00 AM"]
EveningNow == [date |-> D1, time |-> "5:00:00 PM"]

\* text.trim() of the texts typed into the forms
Trim(text) ==
    CASE text = " " -> ""
      [] text = " Bo " -> "Bo"
      [] OTHER -> text

\* { ...data, notes: notes.trim() || undefined } as JSON: no notes key when
\* the trimmed notes are empty.
WithNotes(data, notes) ==
    IF Truthy(Trim(notes))
    THEN [f \in DOMAIN data \cup {"notes"} |-> IF f = "notes" THEN Trim(notes) ELSE data[f]]
    ELSE data

\* handleClockIn: the name is required; sends name, date, timeIn and notes.
HandleClockIn(employeeName, notes, now) ==
    /\ activeModal = "employee"
    /\ Trim(employeeName) # ""
    /\ CreateStaffMutation(
          WithNotes([name |-> Trim(employeeName), date |-> now.date, timeIn |-> now.time],
                    notes))

\* A clock-out that also sends the time of the morning's clock-in.
HandleClockOutWithTimeIn(employeeName, notes, now) ==
    /\ activeModal = "employee"
    /\ Trim(employeeName) # ""
    /\ CreateStaffMutation(
          WithNotes([name |-> Trim(employeeName), date |-> now.date,
                     timeIn |-> MorningNow.time, timeOut |-> now.time],
                    notes))

\* handleClockOut: the name is required; sends name, date, timeOut and notes.
HandleClockOut(employeeName, notes, now) ==
    /\ activeModal = "employee"
    /\ Trim(employeeName) # ""
    /\ CreateStaffMutation(
          WithNotes([name |-> Trim(employeeName), date |-> now.date, timeOut |-> now.time],
                    notes))

\* String(id) in the request path
IdText(id) ==
    CASE id = 1 -> "1"
      [] id = 2 -> "2"
      [] id = 3 -> "3"
      [] id = 4 -> "4"

\* handleDelete(person) confirmed: deleteMutation.mutate({ type, id }) for a
\* person of the list on screen, with its onSuccess.
DeleteMutation(person) ==
    /\ activeModal = "manage"
    /\ DeletePeopleRoute(person.type, IdText(person.id))
    /\ cache' = IF last'.status = 200
                THEN InvalidateQueries(InvalidateQueries(cache, <<"/api/people">>),
                                       <<"/api/stats">>)
                ELSE cache
    /\ UNCHANGED <<activeModal, timers>>

\* The people the manage modal lists: the cached data of /api/people.
PeopleOnScreen ==
    IF cache[PeopleKey].state = "none" THEN {} ELSE Range(cache[PeopleKey].data)

\* ----------------------------------------------------------- specification
Next ==
    \/ \E body \in VolunteerBodies : PostVolunteer(body)
    \/ \E body \in GuestBodies : PostGuest(body)
    \/ \E body \in StaffBodies : PostEmployeeClock(body)
    \/ \E p \in DeleteParams : DeletePeople(p[1], p[2])
    \/ GetVolunteerList
    \/ \E category \in Categories : GetVolunteerCategory(category)
    \/ GetGuestList
    \/ GetEmployeeClock
    \/ GetPeople
    \/ GetStats
    \/ GetVolunteerNames
    \/ GetStaffNames

Spec == Init /\ [][Next]_vars

\* The registry workload: check-ins, registrations and a clock event, each
\* submitted any number of times, deletes of the first ids, and the two
\* composite reads.
RegistryDeleteParams ==
    ({"volunteer", "guest", "staff"} \X {"1", "2"})
    \cup {<<"guest", "2x">>, <<"staff", "abc">>, <<"users", "1">>}

NextRegistry ==
    \/ \E body \in {BobGarden, AnnTours, VolunteerNoArea} : PostVolunteer(body)
    \/ \E body \in {AnnHistoric, GuestNumberEmail} : PostGuest(body)
    \/ \E body \in {BobClockIn, StaffNoName} : PostEmployeeClock(body)
    \/ \E p \in RegistryDeleteParams : DeletePeople(p[1], p[2])
    \/ GetPeople
    \/ GetStats

SpecRegistry == Init /\ [][NextRegistry]_vars

\* The returning-names workload: check-ins and clock events under names that
\* repeat, that are prefixes of one another and that differ in case, deletes
\* of the first ids, and the two name lists.
NamesDeleteParams ==
    ({"volunteer", "staff"} \X {"1", "2"}) \cup {<<"staff", "abc">>, <<"users", "1">>}

NextNames ==
    \/ \E body \in {BobGarden, AnnTours, AmyTours, VolunteerNoArea} : PostVolunteer(body)
    \/ \E body \in {BobClockIn, BoClockOut, StaffNoName} : PostEmployeeClock(body)
    \/ \E p \in NamesDeleteParams : DeletePeople(p[1], p[2])
    \/ GetVolunteerNames
    \/ GetStaffNames

SpecNames == Init /\ [][NextNames]_vars

\* The time-clock workload: clock events with both times, with one of them
\* and with a clock-out before the clock-in, every time a time of day,
\* deletes of the first ids, and the statistics.
ClockDeleteParams == {<<"staff", "1">>, <<"staff", "abc">>, <<"users", "1">>}

NextClock ==
    \/ \E body \in {AnnDay, BobOvernight, AnnAfternoon, BobClockIn, BoClockOut,
                    StaffNoName} :
          PostEmployeeClock(body)
    \/ \E p \in ClockDeleteParams : DeletePeople(p[1], p[2])
    \/ GetStats

SpecClock == Init /\ [][NextClock]_vars

\* The free-text workload: clock events whose time strings are whatever the
\* submitting client's locale rendered, among them text that is no time of
\* day for the date parser.
NextClockText ==
    \/ \E body \in {AnnDay, AnnAfternoon, BobClockIn, BoNoon, BobThirteenPM,
                    StaffNoName} :
          PostEmployeeClock(body)
    \/ \E p \in ClockDeleteParams : DeletePeople(p[1], p[2])
    \/ GetStats

SpecClockText == Init /\ [][NextClockText]_vars

\* The guest-book workload: a registration without the optional fields, a
\* wedding tour with all of them, a wedding tour without the bride's name,
\* deletes of the first id, and the two reads that return Guest rows.
GuestDeleteParams ==
    {<<"guest", "1">>, <<"guest", "2x">>, <<"staff", "abc">>, <<"users", "1">>}

NextGuests ==
    \/ \E body \in {AnnHistoric, EveWedding, AmyWedding, GuestNumberEmail} :
          PostGuest(body)
    \/ \E p \in GuestDeleteParams : DeletePeople(p[1], p[2])
    \/ GetGuestList
    \/ GetPeople

SpecGuests == Init /\ [][NextGuests]_vars

\* The volunteer-desk workload: check-ins in areas that differ, two of them
\* only in case, deletes of the first id, and the list with and without a
\* category.
VolunteerDeleteParams ==
    {<<"volunteer", "1">>, <<"staff", "abc">>, <<"users", "1">>}

NextVolunteers ==
    \/ \E body \in {BobGarden, AnnTours, BoLowerTours, VolunteerNoArea} :
          PostVolunteer(body)
    \/ \E p \in VolunteerDeleteParams : DeletePeople(p[1], p[2])
    \/ GetVolunteerList
    \/ \E category \in Categories : GetVolunteerCategory(category)

SpecVolunteers == Init /\ [][NextVolunteers]_vars

\* The whole service under a small workload: every route, one valid and one
\* invalid body per kind, deletes of the first id.
ServiceDeleteParams ==
    (Kinds \X {"1"}) \cup {<<"staff", "abc">>, <<"users", "1">>}

NextService ==
    \/ \E body \in {BobGarden, VolunteerNoArea} : PostVolunteer(body)
    \/ \E body \in {AnnHistoric, GuestNumberEmail} : PostGuest(body)
    \/ \E body \in {BobClockIn, StaffNoName} : PostEmployeeClock(body)
    \/ \E p \in ServiceDeleteParams : DeletePeople(p[1], p[2])
    \/ GetVolunteerList
    \/ \E category \in {"Garden", ""} : GetVolunteerCategory(category)
    \/ GetGuestList
    \/ GetEmployeeClock
    \/ GetPeople
    \/ GetStats
    \/ GetVolunteerNames
    \/ GetStaffNames

SpecService == Init /\ [][NextService]_vars

\* The shift workload: a clock-in and a clock-out under the same name and
\* date, each its own request carrying one of the two times, beside a check-in
\* and a registration, deletes of the first Staff id, and the Staff reads.
NextShifts ==
    \/ \E body \in {BobClockIn, BobClockOut, StaffNoName} : PostEmployeeClock(body)
    \/ \E body \in {BobGarden, VolunteerNoArea} : PostVolunteer(body)
    \/ \E body \in {AnnHistoric, GuestNumberEmail} : PostGuest(body)
    \/ \E p \in ClockDeleteParams : DeletePeople(p[1], p[2])
    \/ GetEmployeeClock
    \/ GetStats

SpecShifts == Init /\ [][NextShifts]_vars

\* The concurrent workload: requests that create and delete while a
\* three-table read of the database is between two of its selects; with
\* MemStorage the same reads as single steps.
ConcurrentDeleteParams ==
    {<<"volunteer", "1">>, <<"staff", "abc">>, <<"users", "1">>}

NextConcurrent ==
    \/ \E body \in {BobGarden, VolunteerNoArea} : PostVolunteer(body)
    \/ \E body \in {AnnHistoric, GuestNumberEmail} : PostGuest(body)
    \/ \E body \in {AnnDay, StaffNoName} : PostEmployeeClock(body)
    \/ \E p \in ConcurrentDeleteParams : DeletePeople(p[1], p[2])
    \/ \E op \in ReadOps : BeginRead(op)
    \/ Select
    \/ Respond
    \/ backend = "mem" /\ GetPeople
    \/ backend = "mem" /\ GetStats

SpecConcurrent == Init /\ [][NextConcurrent]_vars

\* The short shifts: clock records of twenty minutes, half an hour and a day,
\* deleted and counted.
NextShortShifts ==
    \/ \E body \in {AnnTwentyMinutes, BobHalfHour, AnnDay, StaffNoName} :
          PostEmployeeClock(body)
    \/ \E p \in ClockDeleteParams : DeletePeople(p[1], p[2])
    \/ GetEmployeeClock
    \/ GetStats

SpecShortShifts == Init /\ [][NextShortShifts]_vars

\* Every endpoint, with the three-table reads of the database taken select
\* by select.  The requests that arrive while such a read waits for the
\* database are reads here; SpecConcurrent interleaves it with the writes.
AnsweredDeleteParams ==
    {<<"volunteer", "1">>, <<"staff", "abc">>, <<"users", "1">>}

NextAnswered ==
    \/ pending = NoRead /\ \E body \in {BobGarden, VolunteerNoArea} : PostVolunteer(body)
    \/ pending = NoRead /\ \E body \in {AnnHistoric, GuestNumberEmail} : PostGuest(body)
    \/ pending = NoRead /\ \E body \in {BobClockIn, StaffNoName} : PostEmployeeClock(body)
    \/ pending = NoRead /\ \E p \in AnsweredDeleteParams : DeletePeople(p[1], p[2])
    \/ GetVolunteerList
    \/ \E category \in {"Garden", ""} : GetVolunteerCategory(category)
    \/ GetGuestList
    \/ GetEmployeeClock
    \/ GetVolunteerNames
    \/ GetStaffNames
    \/ \E op \in ReadOps : BeginRead(op)
    \/ Select
    \/ Respond
    \/ backend = "mem" /\ GetPeople
    \/ backend = "mem" /\ GetStats

SpecAnswered == Init /\ [][NextAnswered]_vars

\* The overlapping creates: two callers create Volunteer, Guest and Staff
\* rows, each call made while the other caller's call may still be under way.
CreatorCalls ==
    {CreateCall("volunteer", SchemaParse(VolunteerColumns, BobGarden)),
     CreateCall("volunteer", SchemaParse(VolunteerColumns, AnnTours)),
     CreateCall("guest", SchemaParse(GuestColumns, AnnHistoric)),
     CreateCall("staff", SchemaParse(StaffColumns, BobClockIn))}

NextCreators ==
    \/ \E c \in Callers : \E call \in CreatorCalls : Invoke(c, call)
    \/ \E c \in Callers : Execute(c)
    \/ \E c \in Callers : Resume(c)

SpecCreators == Init /\ [][NextCreators]_vars

\* The overlapping workload: two callers create Volunteer and Guest rows and
\* delete by the first ids, each call made while the other caller's call may
\* still be under way.
CallerCalls ==
    {CreateCall("volunteer", SchemaParse(VolunteerColumns, BobGarden)),
     CreateCall("volunteer", SchemaParse(VolunteerColumns, AnnTours)),
     CreateCall("guest", SchemaParse(GuestColumns, AnnHistoric)),
     DeleteCall("volunteer", 1), DeleteCall("volunteer", 2), DeleteCall("guest", 1)}

NextCallers ==
    \/ \E c \in Callers : \E call \in CallerCalls : Invoke(c, call)
    \/ \E c \in Callers : Execute(c)
    \/ \E c \in Callers : Resume(c)

SpecCallers == Init /\ [][NextCallers]_vars

\* The timed modals: one browser opens and closes the check-in and the
\* registration modal and submits in them; each success schedules the
\* modal's auto-close.
NextModals ==
    \/ \E modalId \in TimedModals : OpenModal(modalId)
    \/ CloseModal
    \/ \E modal \in TimedModals : AutoClose(modal)
    \/ CreateVolunteerMutation(BobGarden)
    \/ CreateGuestMutation(AnnHistoric)

SpecModals == Init /\ [][NextModals]_vars

\* The cached lists: one browser checks volunteers in and deletes people
\* from the list on screen; the queries of the open modal fetch.
NextQueries ==
    \/ \E modalId \in {"volunteer", "manage"} : OpenModal(modalId)
    \/ CloseModal
    \/ AutoClose("volunteer")
    \/ \E key \in QueryKeys : Fetch(key)
    \/ CreateVolunteerMutation(BobGarden)
    \/ \E person \in PeopleOnScreen : DeleteMutation(person)

SpecQueries == Init /\ [][NextQueries]_vars

\* The clock modal: one browser clocks employees in and out; the statistics
\* are read.
NextClockModal ==
    \/ OpenModal("employee")
    \/ CloseModal
    \/ \E employeeName \in {"Bob", " Bo ", " "} :
          HandleClockIn(employeeName, "", MorningNow)
    \/ \E notes \in {"", "late"} :
          HandleClockOut("Bob", notes, EveningNow)
    \/ GetEmployeeClock
    \/ GetStats

SpecClockModal == Init /\ [][NextClockModal]_vars

\* ----------------------------------------------------------------- claims
\* The ids a delete may name: every id a create can have assigned, and one more.
Ids == 1..(MaxCreates + 1)

DeleteOp == "DELETE /api/people/:type/:id"

\* C1: deletePerson(kind, id) is scoped to its kind.  In every reachable
\* state and for every id, deleting that id from one kind leaves the stores of
\* the other two kinds exactly as they are, also when they hold a row with
\* the same id.
C1_DeleteScopedToKind ==
    \A id \in Ids :
        /\ LET d == DeletePerson("staff", id)
           IN  d.volunteers = volunteers /\ d.guests = guests
        /\ LET d == DeletePerson("guest", id)
           IN  d.volunteers = volunteers /\ d.staff = staff
        /\ LET d == DeletePerson("volunteer", id)
           IN  d.guests = guests /\ d.staff = staff

\* A staff row with id 1 has just been deleted while a Volunteer row and a
\* Guest row with id 1 exist, and both are still there.
C1_Witness ==
    /\ last.op = DeleteOp
    /\ last.status = 200
    /\ last.params = <<"staff", "1">>
    /\ HasId(volunteers, 1)
    /\ HasId(guests, 1)
    /\ ~HasId(staff, 1)

\* C2: within one kind every create returns an id strictly greater than
\* every id returned before for that kind, whatever creates and deletes came
\* in between; an id is never handed out twice.
C2_IdsStrictlyIncrease ==
    \A k \in Kinds :
        \A i, j \in 1..Len(issued[k]) : i < j => issued[k][i] < issued[k][j]

\* A Volunteer was created with id 1 and deleted, and the create that just
\* returned got id 2.
C2_Witness ==
    /\ last.op = "POST /api/volunteer"
    /\ last.status = 200
    /\ last.body.id = 2
    /\ issued["volunteer"] = <<1, 2>>
    /\ ~HasId(volunteers, 1)

\* C3: in every reachable state no two elements of getAllPeople() have the
\* same (type, id) pair.
C3_CompositeKeyUnique ==
    LET people == GetAllPeople
    IN  \A i, j \in 1..Len(people) :
            i # j => <<people[i].type, people[i].id>> # <<people[j].type, people[j].id>>

\* getAllPeople() holds two elements of different type with the same id.
C3_Witness ==
    LET people == GetAllPeople
    IN  \E i, j \in 1..Len(people) :
            /\ people[i].id = people[j].id
            /\ people[i].type = "volunteer"
            /\ people[j].type = "staff"

\* C4: deletePerson(kind, id) returns true exactly when a row with that id
\* is in that kind's store, and the row is gone afterwards; when it returns
\* false no store has changed.
C4_DeleteReportsRemoval ==
    \A kind \in Kinds : \A id \in Ids :
        LET d == DeletePerson(kind, id)
            after == CASE kind = "volunteer" -> d.volunteers
                       [] kind = "guest" -> d.guests
                       [] kind = "staff" -> d.staff
        IN  /\ d.result = HasId(StoreOf(kind), id)
            /\ ~HasId(after, id)
            /\ ~d.result =>
                  <<d.volunteers, d.guests, d.staff>> = <<volunteers, guests, staff>>

\* A delete of an existing Guest row was answered with success and the row is
\* gone, while another Guest row is still there.
C4_Witness ==
    /\ last.op = DeleteOp
    /\ last.status = 200
    /\ last.params = <<"guest", "1">>
    /\ ~HasId(guests, 1)
    /\ HasId(guests, 2)

\* The element of getAllPeople() without its type tag.
Untagged(person) == [f \in DOMAIN person \ {"type"} |-> person[f]]

\* The elements of getAllPeople() that carry the tag `kind`, untagged, in order.
PeopleOfKind(kind) ==
    LET tagged == SelectSeq(GetAllPeople, LAMBDA person : person.type = kind)
    IN  [i \in 1..Len(tagged) |-> Untagged(tagged[i])]

\* C6: in every reachable state getAllPeople() has as many elements as the
\* three stores have rows together, every element carries a type tag that is
\* one of the three kinds, and the element is a row of the store of that kind;
\* each kind contributes as many elements as its store has rows.
C6_PeopleCountAndTags ==
    LET people == GetAllPeople
    IN  /\ Len(people) = Len(volunteers) + Len(guests) + Len(staff)
        /\ \A i \in 1..Len(people) :
              /\ "type" \in DOMAIN people[i]
              /\ people[i].type \in Kinds
              /\ Untagged(people[i]) \in Range(StoreOf(people[i].type))
        /\ \A kind \in Kinds : Len(PeopleOfKind(kind)) = Len(StoreOf(kind))

\* The people list was just served with one element of each kind.
C6_Witness ==
    /\ last.op = "GET /api/people"
    /\ last.status = 200
    /\ Len(last.body) = 3
    /\ {last.body[i].type : i \in 1..3} = Kinds
    /\ Len(volunteers) = 1 /\ Len(guests) = 1 /\ Len(staff) = 1

KindRank(kind) ==
    CASE kind = "volunteer" -> 1
      [] kind = "guest" -> 2
      [] kind = "staff" -> 3

\* C7: getAllPeople() lists the volunteer-tagged elements first, then the
\* guest-tagged ones, then the staff-tagged ones, and the elements of each
\* kind are the result of getVolunteers(), getGuests(), getStaff() in the
\* same order.
C7_PeopleOrder ==
    LET people == GetAllPeople
    IN  /\ \A i, j \in 1..Len(people) :
              i < j => KindRank(people[i].type) <= KindRank(people[j].type)
        /\ PeopleOfKind("volunteer") = GetVolunteers
        /\ PeopleOfKind("guest") = GetGuests
        /\ PeopleOfKind("staff") = GetStaff

\* The people list was just served from a database whose Volunteer table
\* returns id 2 before id 1, followed by a Guest row.
C7_Witness ==
    /\ last.op = "GET /api/people"
    /\ last.status = 200
    /\ Len(volunteers) = 2 /\ Len(guests) = 1
    /\ volunteers[1].id = 2 /\ volunteers[2].id = 1
    /\ <<last.body[1].id, last.body[2].id>> = <<2, 1>>
    /\ last.body[3].type = "guest"

SuccessfulDelete(kind) ==
    /\ last'.op = DeleteOp
    /\ last'.status = 200
    /\ last'.params[1] = kind
    /\ ~UNCHANGED stores

\* C8: the stats result counts the rows of the Volunteer store and of the
\* Guest store one by one (as many as there are ids, however many share a
\* name), and a successful delete lowers the count of its kind by exactly
\* one and leaves the other count alone.
C8_StatsCountRows ==
    /\ [](/\ Stats.volunteers = Cardinality({v.id : v \in Range(volunteers)})
          /\ Stats.guests = Cardinality({g.id : g \in Range(guests)}))
    /\ [][/\ SuccessfulDelete("volunteer") =>
               /\ Stats'.volunteers = Stats.volunteers - 1
               /\ Stats'.guests = Stats.guests
          /\ SuccessfulDelete("guest") =>
               /\ Stats'.guests = Stats.guests - 1
               /\ Stats'.volunteers = Stats.volunteers
          /\ SuccessfulDelete("staff") =>
               /\ Stats'.guests = Stats.guests
               /\ Stats'.volunteers = Stats.volunteers]_vars

\* Three check-ins under the same name, one of them deleted: the stats just
\* served count two volunteers.
C8_Witness ==
    /\ last.op = "GET /api/stats"
    /\ last.status = 200
    /\ last.body.volunteers = 2
    /\ Len(issued["volunteer"]) = 3
    /\ \A i \in 1..Len(volunteers) : volunteers[i].name = "Bob"

\* `names` holds exactly the names of `rows`, each once, in ascending order.
IsSortedNameSet(names, rows) ==
    /\ Range(names) = {rows[i].name : i \in 1..Len(rows)}
    /\ \A i, j \in 1..Len(names) : i < j => StringLess(names[i], names[j])

\* C5: after any sequence of creates and deletes getUniqueVolunteerNames()
\* returns exactly the names of the Volunteer rows now in the store, each
\* once, in strictly ascending order, and getUniqueStaffNames() does the same
\* for the Staff rows; the name of a row that was deleted appears only while
\* another row carries it.
C5_UniqueNamesSorted ==
    /\ IsSortedNameSet(GetUniqueVolunteerNames, volunteers)
    /\ IsSortedNameSet(GetUniqueStaffNames, staff)

\* Check-ins by Bob, Ann and Bob are in the store in that order and the
\* name list just served is Ann, Bob.
C5_Witness ==
    /\ last.op = "GET /api/volunteer-names"
    /\ last.status = 200
    /\ NamesOf(volunteers) = <<"Bob", "Ann", "Bob">>
    /\ last.body = <<"Ann", "Bob">>

\* The time of day a time string denotes, in minutes after midnight.
TimeOfDay(text) ==
    CASE text = "9:00:00 AM"  -> 9 * 60
      [] text = "9:15:00 AM"  -> 9 * 60 + 15
      [] text = "9:20:00 AM"  -> 9 * 60 + 20
      [] text = "9:30:00 AM"  -> 9 * 60 + 30
      [] text = "12:30:00 PM" -> 12 * 60 + 30
      [] text = "5:00:00 PM"  -> 17 * 60
      [] text = "17:00:00"    -> 17 * 60

ParseableTimes ==
    {"9:00:00 AM", "9:15:00 AM", "9:20:00 AM", "9:30:00 AM", "12:30:00 PM",
     "5:00:00 PM", "17:00:00"}

BothTimesPresent(row) == row.timeIn # NULL /\ row.timeOut # NULL

AllTimesParseable(rows) ==
    \A i \in 1..Len(rows) :
        /\ rows[i].timeIn # NULL => rows[i].timeIn \in ParseableTimes
        /\ rows[i].timeOut # NULL => rows[i].timeOut \in ParseableTimes

\* The sum over the rows with both times of max(0, timeOut - timeIn), in minutes.
RECURSIVE WorkedMinutes(_)
WorkedMinutes(rows) ==
    IF rows = <<>> THEN 0
    ELSE LET row == Head(rows)
             gap == IF BothTimesPresent(row)
                    THEN TimeOfDay(row.timeOut) - TimeOfDay(row.timeIn)
                    ELSE 0
         IN  (IF gap > 0 THEN gap ELSE 0) + WorkedMinutes(Tail(rows))

\* minutes / 60 rounded to the nearest integer, a half rounding up
NearestHour(minutes) == (2 * minutes + 60) \div 120

Redated(rows, date) == [i \in 1..Len(rows) |-> [rows[i] EXCEPT !.date = date]]

\* C9: when every time string of every Staff row is a time of day,
\* stats.hours is the sum over the rows with both times of
\* max(0, timeOut - timeIn) in hours, rounded to the nearest integer: a row
\* whose timeOut is before its timeIn adds 0, a row with one time adds 0, and
\* the dates of the rows do not matter.
C9_HoursClampedSum ==
    AllTimesParseable(staff) =>
        /\ Stats.hours = Num(NearestHour(WorkedMinutes(staff)))
        /\ TotalHours(Redated(staff, D1)) = TotalHours(staff)

\* The stats just served report 8 hours for a store holding an 8-hour row, a
\* row that clocks out before it clocks in, and a row with a clock-in only.
C9_Witness ==
    /\ last.op = "GET /api/stats"
    /\ last.status = 200
    /\ last.body.hours = Num(8)
    /\ Len(staff) = 3
    /\ \E i \in 1..3 : staff[i].timeIn = "5:00:00 PM" /\ staff[i].timeOut = "9:00:00 AM"
    /\ \E i \in 1..3 : staff[i].timeIn = "9:00:00 AM" /\ staff[i].timeOut = "5:00:00 PM"
    /\ \E i \in 1..3 : staff[i].timeIn = "9:00:00 AM" /\ staff[i].timeOut = NULL

UnparseableRow(row) ==
    \/ row.timeIn # NULL /\ row.timeIn \notin ParseableTimes
    \/ row.timeOut # NULL /\ row.timeOut \notin ParseableTimes

\* C10: a Staff row with a time string that is no time of day adds 0 hours:
\* stats.hours equals the stats.hours of the same rows without those rows.
C10_UnparseableAddsZero ==
    Stats.hours =
        JsRound(TotalHours(SelectSeq(staff, LAMBDA row : ~UnparseableRow(row))))

\* Every storage call of the last request returned.
NoCallThrew == \A i \in 1..Len(calls) : ~calls[i].threw

\* C11: when the Staff store holds a row with a time string that is no time
\* of day and the three storage reads of the stats request returned, the
\* request is answered with status 200 and a body carrying volunteers, guests
\* and hours, not with the 500 failure response.
C11_StatsSurvivesBadTimes ==
    (/\ last.op = StatsOp
     /\ NoCallThrew
     /\ \E i \in 1..Len(staff) : UnparseableRow(staff[i]))
    => /\ last.status = 200
       /\ DOMAIN last.body = {"volunteers", "guests", "hours"}

\* The stats were just served with status 200 for a Staff store holding a row
\* that clocks in at 9 and out at "noon"; the hours sent are not a number.
C11_Witness ==
    /\ last.op = StatsOp
    /\ last.status = 200
    /\ Len(calls) = 3 /\ NoCallThrew
    /\ \E i \in 1..Len(staff) :
          staff[i].timeIn = "9:00:00 AM" /\ staff[i].timeOut = "noon"
    /\ last.body.hours = NaN

GuestOp == "POST /api/guest"

\* C12: a Guest creation request with reason "wedding" and no brideName is
\* answered with the validation error (status 400) whose list of violated
\* fields names brideName, without a storage call, and the Guest store never
\* holds a wedding row without a bride's name.
C12_WeddingNeedsBrideName ==
    /\ (/\ last.op = GuestOp
         /\ Get(last.params, "reason") = "wedding"
         /\ ~Has(last.params, "brideName"))
        => /\ last.status = 400
           /\ "brideName" \in last.body.errors
           /\ calls = <<>>
    /\ \A i \in 1..Len(guests) :
          guests[i].reason = "wedding" => guests[i].brideName # NULL

\* The Guest row was created from a request body that has no joinNewsletter.
WithoutNewsletterChoice(row) ==
    \E body \in GuestBodies :
        /\ ~Has(body, "joinNewsletter")
        /\ \A f \in GuestRequired : row[f] = body[f]

\* C13: the record returned for a valid Guest creation request that omits
\* joinNewsletter has joinNewsletter false, and so has that record in the
\* result of getGuests() and of getAllPeople() from then on.
C13_NewsletterDefaultsFalse ==
    /\ (/\ last.op = GuestOp
         /\ last.status = 200
         /\ ~Has(last.params, "joinNewsletter"))
        => last.body.joinNewsletter = JsFalse
    /\ \A i \in 1..Len(GetGuests) :
          WithoutNewsletterChoice(GetGuests[i]) => GetGuests[i].joinNewsletter = JsFalse
    /\ \A i \in 1..Len(GetAllPeople) :
          (/\ GetAllPeople[i].type = "guest"
           /\ WithoutNewsletterChoice(GetAllPeople[i]))
          => GetAllPeople[i].joinNewsletter = JsFalse

VolunteerOp == "POST /api/volunteer"
StaffOp == "POST /api/employee-clock"
CreateOps == {VolunteerOp, GuestOp, StaffOp}

\* The input fields of a kind's creation request, and the optional text
\* fields among them.
InputFields(op) ==
    CASE op = VolunteerOp -> VolunteerColumns \ {"id"}
      [] op = GuestOp -> GuestColumns \ {"id"}
      [] op = StaffOp -> StaffColumns \ {"id"}

OptionalText(op) ==
    CASE op = VolunteerOp -> {"timeOut"}
      [] op = GuestOp -> {"phone", "brideName", "groomName", "tourGuide"}
      [] op = StaffOp -> {"timeIn", "timeOut", "notes"}

\* C14: in the record returned for a valid creation request every optional
\* text field the request omits is null, and every input field the request
\* supplies has the supplied value.
C14_OptionalFieldsRoundTrip ==
    (last.op \in CreateOps /\ last.status = 200) =>
        /\ \A f \in OptionalText(last.op) :
              ~Has(last.params, f) => last.body[f] = NULL
        /\ \A f \in DOMAIN last.params \cap InputFields(last.op) :
              last.body[f] = last.params[f]

\* The areas a Volunteer row of the model can carry.
Areas == {body.area : body \in {b \in VolunteerBodies : Has(b, "area")}}

\* C15: in every reachable state and for every area A every record of
\* getVolunteersByCategory(A) has exactly the area A; right after a Volunteer
\* was created, getVolunteersByCategory of its area contains the created
\* record; and a category list the route served holds records of that
\* category only.
C15_CategoryRoundTrip ==
    /\ \A A \in Areas :
          \A i \in 1..Len(GetVolunteersByCategory(A)) :
              GetVolunteersByCategory(A)[i].area = A
    /\ (last.op = VolunteerOp /\ last.status = 200) =>
          last.body \in Range(GetVolunteersByCategory(last.body.area))
    /\ (/\ last.op = "GET /api/volunteer"
         /\ last.status = 200
         /\ calls = <<Returned("getVolunteersByCategory")>>)
        => \A i \in 1..Len(last.body) : last.body[i].area = last.params[1]

\* A check-in for "Tours" was just created while the store holds a "tours"
\* and a "Garden" row: the "Tours" list is the created record alone.
C15_Witness ==
    /\ last.op = VolunteerOp
    /\ last.status = 200
    /\ last.body.area = "Tours"
    /\ \E i \in 1..Len(volunteers) : volunteers[i].area = "tours"
    /\ \E i \in 1..Len(volunteers) : volunteers[i].area = "Garden"
    /\ GetVolunteersByCategory("Tours") = <<last.body>>

RequiredFields(op) ==
    CASE op = VolunteerOp -> {"name", "date", "timeIn", "area", "activities"}
      [] op = GuestOp -> {"name", "email", "reason", "date"}
      [] op = StaffOp -> {"name", "date"}

\* The input fields the body of a creation request violates: a required
\* field that is missing or no text, an optional field that is neither null
\* nor of its type (text; a boolean for joinNewsletter).
ViolatedFields(op, body) ==
    {f \in RequiredFields(op) : ~Has(body, f)}
    \cup {f \in DOMAIN body \cap RequiredFields(op) : ~IsString(body[f])}
    \cup {f \in DOMAIN body \cap (InputFields(op) \ RequiredFields(op)) :
            /\ body[f] # NULL
            /\ IF f = "joinNewsletter" THEN ~IsBoolean(body[f]) ELSE ~IsString(body[f])}

\* C16: a creation request whose body violates a field is answered with
\* status 400 and the list of the violated fields, its handler makes no
\* storage call, and the step leaves the three stores and the three id
\* counters unchanged.
C16_InvalidBodyRejected ==
    /\ []((/\ last.op \in CreateOps
            /\ ViolatedFields(last.op, last.params) # {})
           => /\ last.status = 400
              /\ last.body.errors = ViolatedFields(last.op, last.params)
              /\ calls = <<>>)
    /\ [][(/\ last'.op \in CreateOps
            /\ ViolatedFields(last'.op, last'.params) # {})
           => UNCHANGED <<stores, counters>>]_vars

\* A registration whose email is a number was just rejected, naming email,
\* while the Guest store holds a row and the next Guest id is 2.
C16_Witness ==
    /\ last.op = GuestOp
    /\ last.status = 400
    /\ last.body.errors = {"email"}
    /\ calls = <<>>
    /\ Len(guests) = 1
    /\ currentGuestId = 2

NamesOps == {"GET /api/volunteer-names", "GET /api/staff-names"}

\* A storage call of the last request threw.
SomeCallThrew == \E i \in 1..Len(calls) : calls[i].threw

\* C17: when a storage call of a request throws, the request is answered
\* with status 500 and a body that is one message text and nothing else, the
\* throwing call is the handler's last storage call and no storage operation
\* is called twice (no retry), and the step leaves the three stores as they
\* were.
C17_StorageFaultAnswered ==
    /\ [](SomeCallThrew =>
            /\ last.status = 500
            /\ DOMAIN last.body = IF last.op \in NamesOps THEN {"error"} ELSE {"message"}
            /\ \A i \in 1..Len(calls) : calls[i].threw => i = Len(calls)
            /\ \A i, j \in 1..Len(calls) : calls[i].fn = calls[j].fn => i = j)
    /\ [][(\E i \in 1..Len(calls') : calls'[i].threw) => UNCHANGED stores]_vars

\* A clock event was just answered with 500 after its insert threw; the one
\* Staff row of before is the store's content, and the failed insert has
\* drawn an id.
C17_Witness ==
    /\ last.op = StaffOp
    /\ last.status = 500
    /\ calls = <<Threw("createStaff")>>
    /\ Len(staff) = 1
    /\ currentStaffId = 3

\* The row with the given id.
RowOf(rows, id) == CHOOSE row \in Range(rows) : row.id = id

\* C18: no operation updates a stored record.  In every state a store holds
\* at most one row per id and the record a create returned is the row stored
\* under its id; in every step a row that is in its store before and after
\* has the same attribute values, and a row that appears carries an id no
\* create of its kind returned before, so a record keeps its values from its
\* creation until its deletion.
C18_RecordsNeverChange ==
    /\ [](/\ \A kind \in Kinds :
                \A i, j \in 1..Len(StoreOf(kind)) :
                    StoreOf(kind)[i].id = StoreOf(kind)[j].id => i = j
          /\ (last.op \in CreateOps /\ last.status = 200) =>
                \E kind \in Kinds :
                    /\ HasId(StoreOf(kind), last.body.id)
                    /\ RowOf(StoreOf(kind), last.body.id) = last.body)
    /\ [][\A kind \in Kinds :
            LET before == StoreOf(kind)
                after == StoreOf(kind)'
            IN  /\ \A i \in 1..Len(before) :
                      HasId(after, before[i].id) =>
                          RowOf(after, before[i].id) = before[i]
                /\ \A j \in 1..Len(after) :
                      ~HasId(before, after[j].id) =>
                          after[j].id \notin Range(issued[kind])]_vars

\* The people list was just served with the Volunteer rows 2 and 3, after
\* row 1 was created and deleted.
C18_Witness ==
    /\ last.op = "GET /api/people"
    /\ last.status = 200
    /\ issued["volunteer"] = <<1, 2, 3>>
    /\ {volunteers[i].id : i \in 1..Len(volunteers)} = {2, 3}

\* C19: a successful clock request inserts exactly one new Staff row, under
\* an id that no Staff row has and no earlier create returned, and leaves
\* every other Staff row and the Volunteer and Guest stores as they were,
\* also when a row with the same name and date is there; no Staff row comes
\* to carry both the clock-in of one request and the clock-out of another.
C19_ClockEventsAreSeparateRows ==
    /\ [][(last'.op = StaffOp /\ last'.status = 200) =>
            /\ Len(staff') = Len(staff) + 1
            /\ ~HasId(staff, last'.body.id)
            /\ last'.body.id \notin Range(issued["staff"])
            /\ last'.body \in Range(staff')
            /\ WithoutId(staff', last'.body.id) = staff
            /\ UNCHANGED <<volunteers, guests>>]_vars
    /\ [](\A i \in 1..Len(staff) :
            staff[i].timeIn = NULL \/ staff[i].timeOut = NULL)

\* Bob's clock-out was just stored while the row of his clock-in of the same
\* date is there: two rows, one with each time.
C19_Witness ==
    /\ last.op = StaffOp
    /\ last.status = 200
    /\ last.body.timeOut = "5:00:00 PM"
    /\ Len(staff) = 2
    /\ \A i \in 1..2 : staff[i].name = "Bob" /\ staff[i].date = D1
    /\ \E i \in 1..2 : staff[i].timeIn = "9:00:00 AM" /\ staff[i].timeOut = NULL
    /\ \E i \in 1..2 : staff[i].timeIn = NULL /\ staff[i].timeOut = "5:00:00 PM"

\* C20: the body of every successful getAllPeople and stats response equals
\* what the operation returns on the contents the three stores had together
\* at one instant between the start of the request and its response, whatever
\* other requests created or deleted meanwhile.
C20_ReadsAreAtomic ==
    [][(last'.op \in ReadOps /\ last'.status = 200) =>
        \E s \in (IF pending = NoRead THEN {stores} ELSE snapshots) :
            last'.body = ReadResult(last'.op, s[1], s[2], s[3])]_vars

\* The call of caller c has taken effect and c has not yet resumed: two
\* callers in this stage made calls that overlapped.
Resolved(c, fn) ==
    /\ inflight[c].stage = "resolved"
    /\ inflight[c].call.fn = fn
    /\ ~inflight[c].threw

\* The call of caller c has taken effect, whether or not c has resumed.
Landed(c, fn) ==
    /\ inflight[c].stage \in {"resolved", "settled"}
    /\ inflight[c].call.fn = fn
    /\ ~inflight[c].threw

\* Caller c's create takes effect in this step.
CreateLands(c) ==
    /\ inflight[c].stage # "resolved"
    /\ inflight'[c].stage = "resolved"
    /\ inflight'[c].call.fn = "create"
    /\ ~inflight'[c].threw

\* C21: when two callers' creates overlap (of the same kind or of different
\* kinds), each create that the storage does not fail returns its row, both
\* rows are in their stores afterwards, and two rows of the same kind have
\* different ids; a create adds exactly its row under an id never returned
\* before and leaves every other row of every kind as it was, so no insert
\* is lost or overwritten by the other.
C21_OverlappingCreatesBothLand ==
    /\ [](\A a, b \in Callers :
            a # b /\ Landed(a, "create") /\ Landed(b, "create") =>
                LET ra == inflight[a].result
                    rb == inflight[b].result
                IN  /\ ra \in Range(StoreOf(inflight[a].call.kind))
                    /\ rb \in Range(StoreOf(inflight[b].call.kind))
                    /\ inflight[a].call.kind = inflight[b].call.kind => ra.id # rb.id)
    /\ [][\A c \in Callers : \A kind \in Kinds :
            CreateLands(c) /\ inflight'[c].call.kind = kind =>
            LET row == inflight'[c].result
            IN  /\ row.id \notin Range(issued[kind])
                /\ ~HasId(StoreOf(kind), row.id)
                /\ Len(StoreOf(kind)') = Len(StoreOf(kind)) + 1
                /\ row \in Range(StoreOf(kind)')
                /\ \A k \in Kinds :
                      \A old \in Range(StoreOf(k)) : old \in Range(StoreOf(k)')
                /\ \A k \in Kinds \ {kind} : StoreOf(k)' = StoreOf(k)]_vars

\* Two creates of the same kind overlapped on the database, the second sent
\* before the first was executed, and both rows are stored.
C21_Witness ==
    /\ backend = "db"
    /\ Resolved("a", "create") /\ Resolved("b", "create")
    /\ inflight["a"].call.kind = inflight["b"].call.kind
    /\ inflight["a"].result.id = 2
    /\ inflight["b"].result.id = 1
    /\ {inflight["a"].result, inflight["b"].result} \subseteq Range(volunteers)

\* Caller c's deletePerson takes effect in this step.
DeleteLands(c) ==
    /\ inflight[c].stage # "resolved"
    /\ inflight'[c].stage = "resolved"
    /\ inflight'[c].call.fn = "deletePerson"
    /\ ~inflight'[c].threw

\* C29: when two callers' deletePerson calls for the same (kind, id) overlap,
\* at most one of them returns true; the delete that takes effect while the
\* row is there returns true and the other, finding it gone, returns false;
\* the row is removed and every other row of every kind stays as it was.
C29_OverlappingDeletesOneWins ==
    /\ [](\A a, b \in Callers :
            /\ a # b
            /\ Landed(a, "deletePerson") /\ Landed(b, "deletePerson")
            /\ inflight[a].call = inflight[b].call
            => ~(inflight[a].result /\ inflight[b].result))
    /\ [][\A c \in Callers : \A kind \in Kinds :
            DeleteLands(c) /\ inflight'[c].call.kind = kind =>
            LET id == inflight'[c].call.id
            IN  /\ inflight'[c].result = HasId(StoreOf(kind), id)
                /\ StoreOf(kind)' = WithoutId(StoreOf(kind), id)
                /\ ~HasId(StoreOf(kind)', id)
                /\ \A k \in Kinds \ {kind} : StoreOf(k)' = StoreOf(k)
                /\ \A d \in Callers \ {c} :
                      /\ Resolved(d, "deletePerson")
                      /\ inflight[d].call = inflight'[c].call
                      /\ inflight[d].result
                      => ~inflight'[c].result]_vars

\* Both deletes of Volunteer 1 were sent to the database while the row was
\* there; caller b's was executed first and returned true, caller a's
\* false, and Volunteer 2 is still stored.
C29_Witness ==
    /\ backend = "db"
    /\ Resolved("a", "deletePerson") /\ Resolved("b", "deletePerson")
    /\ inflight["a"].call = DeleteCall("volunteer", 1)
    /\ inflight["b"].call = DeleteCall("volunteer", 1)
    /\ ~inflight["a"].result
    /\ inflight["b"].result
    /\ issued["volunteer"] = <<1, 2>>
    /\ ~HasId(volunteers, 1)
    /\ HasId(volunteers, 2)

\* A create returned (kind, id) and the kind's store holds no row with it:
\* the row has been deleted.
Gone(kind, id) == id \in Range(issued[kind]) /\ ~HasId(StoreOf(kind), id)

\* The request just answered was a delete of (kind, id) whose deletePerson
\* call returned.
DeleteReturned(response, made, kind, id) ==
    /\ response.op = DeleteOp
    /\ response.params[1] = kind
    /\ ParseInt(response.params[2]) = Num(id)
    /\ made = <<Returned("deletePerson")>>

\* C30: deletion is permanent.  When deletePerson has returned true for
\* (kind, id) the row is gone, and from then on no request brings it back:
\* after every later step the kind's list and getAllPeople() have no entry
\* with that kind and id, and a later deletePerson(kind, id) returns false
\* (the route answers 404).
C30_DeletionIsPermanent ==
    /\ [](\A kind \in Kinds : \A id \in Ids :
            DeleteReturned(last, calls, kind, id) /\ last.status = 200
            => Gone(kind, id))
    /\ [][\A kind \in Kinds : \A id \in Ids :
            Gone(kind, id) =>
                /\ ~HasId(StoreOf(kind)', id)
                /\ \A person \in Range(GetAllPeople') :
                      ~(person.type = kind /\ person.id = id)
                /\ DeleteReturned(last', calls', kind, id) => last'.status = 404]_vars

\* Volunteer 1 was deleted, a later check-in created Volunteer 2, and a
\* second delete of Volunteer 1 has just been answered 404.
C30_Witness ==
    /\ Gone("volunteer", 1)
    /\ HasId(volunteers, 2)
    /\ DeleteReturned(last, calls, "volunteer", 1)
    /\ last.status = 404

\* The id texts that are numbers: decimal digits and nothing else.
NumericIds == {"1", "2", "3", "4"}

\* C24: a delete request changes the stores only when it succeeds.  A
\* non-numeric id or a kind outside {volunteer, guest, staff} is answered
\* 400 with no storage call; a well-formed (kind, id) with no matching row
\* is answered 404; in these cases every store stays as it was.  Only a
\* matching row gives the success response, and then exactly that row is
\* removed.
C24_DeleteChangesOnlyOnSuccess ==
    [][last'.op = DeleteOp =>
        LET type == last'.params[1]
            text == last'.params[2]
            id == ParseInt(text).v
        IN  /\ text \notin NumericIds \/ type \notin Kinds =>
                  last'.status = 400 /\ calls' = <<>> /\ stores' = stores
            /\ /\ text \in NumericIds /\ type \in Kinds
               /\ calls' = <<Returned("deletePerson")>>
               /\ ~HasId(StoreOf(type), id)
               => last'.status = 404 /\ stores' = stores
            /\ last'.status = 200 =>
                  /\ text \in NumericIds /\ type \in Kinds
                  /\ HasId(StoreOf(type), id)
                  /\ \A kind \in Kinds :
                        StoreOf(kind)' = IF kind = type
                                         THEN WithoutId(StoreOf(kind), id)
                                         ELSE StoreOf(kind)
            /\ stores' # stores => last'.status = 200]_vars

\* The minutes each Staff row adds to the total, row by row.
Durations(rows) == [i \in 1..Len(rows) |-> WorkedMinutes(<<rows[i]>>)]

\* C25: stats.hours is the total of the rows' unrounded durations, rounded
\* once: it is the integer h with h - 1/2 <= total < h + 1/2 hours, so a
\* total of exactly half an hour gives 1, two rows of 20 minutes and one of
\* 30 minutes give 1, and two rows of 20 minutes give 1 although each alone
\* rounds to 0.
C25_HoursRoundedOnce ==
    LET minutes == WorkedMinutes(staff)
        hours == Stats.hours
    IN  AllTimesParseable(staff) =>
            /\ ~hours.nan
            /\ 60 * hours.v - 30 <= minutes
            /\ minutes < 60 * hours.v + 30
            /\ minutes = 30 => hours.v = 1
            /\ minutes = 70 => hours.v = 1

\* Two rows of 20 minutes and one of 30 minutes are stored and the stats
\* just served report 1 hour.
C25_Witness ==
    /\ Len(staff) = 3
    /\ \E i, j, k \in 1..3 :
          {i, j, k} = 1..3 /\ <<Durations(staff)[i], Durations(staff)[j],
                                 Durations(staff)[k]>> = <<20, 20, 30>>
    /\ last.op = StatsOp
    /\ last.status = 200
    /\ last.body.hours = Num(1)

\* C28: every Staff row created through the employee clock modal has at
\* most one of timeIn and timeOut, so whatever the sequence of clock-ins and
\* clock-outs submitted through the modal, stats.hours is 0.
C28_ClockModalRowsAddNoHours ==
    /\ \A row \in Range(staff) : row.timeIn = NULL \/ row.timeOut = NULL
    /\ Stats.hours = Num(0)
    /\ last.op = StatsOp /\ last.status = 200 => last.body.hours = Num(0)

\* Bob clocked in at 9 AM and out at 5 PM through the modal (two rows, one
\* time each) and the statistics just served report 0 hours.
C28_Witness ==
    /\ \E row \in Range(staff) : row.name = "Bob" /\ row.timeIn = "9:00:00 AM"
    /\ \E row \in Range(staff) : row.name = "Bob" /\ row.timeOut = "5:00:00 PM"
    /\ last.op = StatsOp
    /\ last.status = 200
    /\ last.body.hours = Num(0)

\* C27: the auto-close timer a modal schedules after a successful
\* submission closes only that modal: when the timer of one modal fires
\* while another modal is open (the user closed the first and opened the
\* other in the meantime), the open modal stays open.
C27_TimerClosesOnlyItsModal ==
    [][\A modal \in TimedModals :
          timers'[modal] < timers[modal] /\ activeModal # modal
          => activeModal' = activeModal]_vars

\* The kind of record a mutation's request creates or deletes.
MutatedKind(response) ==
    CASE response.op = VolunteerOp -> "volunteer"
      [] response.op = GuestOp -> "guest"
      [] response.op = StaffOp -> "staff"
      [] response.op = DeleteOp -> response.params[1]

\* The cached queries whose data depends on the records of a kind: the
\* people list, the statistics, and the kind's list of names.
DependentQueries(kind) ==
    {PeopleKey, StatsKey}
    \cup (IF kind = "volunteer" THEN {VolunteerNamesKey} ELSE {})
    \cup (IF kind = "staff" THEN {StaffNamesKey} ELSE {})

\* C23: after every successful mutation of the client (a volunteer
\* check-in, a guest registration, a staff clock event, a person delete)
\* every cached query that depends on the mutated data is invalidated.
C23_MutationsInvalidateDependents ==
    [][/\ last'.op \in CreateOps \cup {DeleteOp}
       /\ last'.status = 200
       /\ stores' # stores
       => \A key \in DependentQueries(MutatedKind(last')) :
             cache[key].state # "none" => cache'[key].state = "invalidated"]_vars

\* The record each storage class returns for the create a route with
\* operation `op` makes from `body`, under the id `id`.
RecordOf(class, op, body, id) ==
    CASE op = VolunteerOp ->
            LET insert == SchemaParse(VolunteerColumns, body)
            IN  IF class = "mem" THEN MemCreateVolunteer(insert, id)
                ELSE DbCreateVolunteer(insert, id)
      [] op = GuestOp ->
            LET insert == SchemaParse(GuestColumns, body)
            IN  IF class = "mem" THEN MemCreateGuest(insert, id)
                ELSE DbCreateGuest(insert, id)
      [] op = StaffOp ->
            LET insert == SchemaParse(StaffColumns, body)
            IN  IF class = "mem" THEN MemCreateStaff(insert, id)
                ELSE DbCreateStaff(insert, id)

\* C22: MemStorage and DatabaseStorage are interchangeable.  On the same
\* contents both answer an operation alike: the record a create returns is
\* the record either class builds for that input (same id, same field
\* values, defaults included), a delete removes the same row and reports
\* the same boolean, and the unique names come in the same order.
C22_BackendsInterchangeable ==
    /\ last.op \in CreateOps /\ last.status = 200 =>
          /\ last.body = RecordOf("mem", last.op, last.params, last.body.id)
          /\ last.body = RecordOf("db", last.op, last.params, last.body.id)
    /\ \A kind \in Kinds : \A id \in Ids :
          MapDelete(StoreOf(kind), id) = DbDelete(StoreOf(kind), id)
    /\ \A kind \in Kinds :
          IsSortedNameSet(UniqueNames(StoreOf(kind)), StoreOf(kind))

\* The status codes the handlers send.
StatusCodes == {200, 400, 404, 500}

\* C26: every request is answered, and answered exactly once, on every path
\* through its handler.  A step either carries a three-table read forward
\* without sending anything, or it completes one request with exactly one
\* response: 400 before any storage call, 500 exactly when a storage call
\* threw, 200 or 404 otherwise.  A read that waits for the database is never
\* stuck: its next select or its answer can always be taken, every select
\* brings it one result closer to the answer, and it ends with the answer to
\* the request that began it.
C26_EveryRequestAnsweredOnce ==
    /\ [][\/ /\ pending' \notin {pending, NoRead}
             /\ UNCHANGED <<last, calls, answers, stores, counters>>
             /\ pending'.op = (IF pending = NoRead THEN pending'.op ELSE pending.op)
             /\ Len(pending'.got) =
                   (IF pending = NoRead THEN 0 ELSE Len(pending.got) + 1)
             /\ Len(pending'.got) <= Len(stores)
          \/ /\ pending' \in {pending, NoRead}
             /\ answers' = 1
             /\ last'.op # "none"
             /\ (pending # NoRead /\ pending' = NoRead) => last'.op = pending.op
             /\ last'.status \in StatusCodes
             /\ last'.status = 400 => calls' = <<>> /\ stores' = stores
             /\ last'.status = 500 <=>
                   \E i \in 1..Len(calls') : calls'[i].threw
             /\ last'.status \in {200, 404} =>
                   /\ calls' # <<>>
                   /\ \A i \in 1..Len(calls') : ~calls'[i].threw]_vars
    /\ [](pending # NoRead => ENABLED (Select \/ Respond))

\* A statistics read of the database, begun and carried through its three
\* selects, has just been answered with 200.
C26_Witness ==
    /\ backend = "db"
    /\ pending = NoRead
    /\ snapshots = {}
    /\ last.op = StatsOp
    /\ last.status = 200
    /\ answers = 1
    /\ Len(volunteers) = 1

====
